---- MODULE Spec2Model ----
(***************************************************************************)
(* Vision Buddy: the multimodal interaction orchestrator (the React        *)
(* component App), its speech output (playMessage over the <audio>         *)
(* element and window.speechSynthesis), the vision client, the remote      *)
(* voice client and the spatial registry client.                           *)
(*                                                                         *)
(* React semantics kept by the model: a handler reads the state of the     *)
(* render that created it.  Handlers bound to buttons belong to the last   *)
(* committed render, so they read the current state when the click         *)
(* arrives and keep that snapshot across their awaits.  The speech         *)
(* recognition handler is installed by setupSpeechRecognition, which runs  *)
(* at mount and at every language change, so it reads the state of the     *)
(* render in which it was installed (voiceSnap).  State setters always     *)
(* write the current state.                                                *)
(***************************************************************************)
EXTENDS Integers, Sequences, FiniteSets, TLC

\* ------------------------------------------------------------------ bounds
\* Turn slots: how many handler invocations may be suspended at once.
MaxTurns == 2
\* Turn triggers (scan, pin, recognition result) delivered in one run.
MaxEvents == 2
\* Other clicks (language, cancel, saved place, repeat) delivered in one run.
MaxClicks == 1
\* Fragments joined into one recognition result.
MaxWords == 2

\* ------------------------------------------------------------ text helpers
\* Strings are sequences of one-character strings, so that toLowerCase and
\* includes are computed the way the code computes them.
UpperChars == <<"A","B","C","D","E","F","G","H","I","J","K","L","M",
                "N","O","P","Q","R","S","T","U","V","W","X","Y","Z">>
LowerChars == <<"a","b","c","d","e","f","g","h","i","j","k","l","m",
                "n","o","p","q","r","s","t","u","v","w","x","y","z">>

\* String.prototype.toLowerCase on one character.
LowerChar(c) ==
  IF \E i \in 1..26 : UpperChars[i] = c
  THEN LowerChars[CHOOSE i \in 1..26 : UpperChars[i] = c]
  ELSE c

\* The utterance compared as it was heard.
KeepCase(s) == s

\* String.prototype.toLowerCase.
toLowerCase(s) == [i \in 1..Len(s) |-> LowerChar(s[i])]

\* String.prototype.includes: k occurs in s as a contiguous substring.
includes(s, k) ==
  \E i \in 1..(Len(s) - Len(k) + 1) : SubSeq(s, i, i + Len(k) - 1) = k

\* ---------------------------------------------------------------- languages
\* languageKeywords, in Object.entries order: name (as characters) and locale.
languageKeywords ==
  << [name |-> "Spanish",    chars |-> <<"S","p","a","n","i","s","h">>,             code |-> "es-ES"],
     [name |-> "French",     chars |-> <<"F","r","e","n","c","h">>,                 code |-> "fr-FR"],
     [name |-> "German",     chars |-> <<"G","e","r","m","a","n">>,                 code |-> "de-DE"],
     [name |-> "Chinese",    chars |-> <<"C","h","i","n","e","s","e">>,             code |-> "zh-CN"],
     [name |-> "Japanese",   chars |-> <<"J","a","p","a","n","e","s","e">>,         code |-> "ja-JP"],
     [name |-> "Hindi",      chars |-> <<"H","i","n","d","i">>,                     code |-> "hi-IN"],
     [name |-> "English",    chars |-> <<"E","n","g","l","i","s","h">>,             code |-> "en-US"],
     [name |-> "Portuguese", chars |-> <<"P","o","r","t","u","g","u","e","s","e">>, code |-> "pt-BR"],
     [name |-> "Italian",    chars |-> <<"I","t","a","l","i","a","n">>,             code |-> "it-IT"] >>

LangIdx == 1..Len(languageKeywords)
LanguageNames == { languageKeywords[i].name : i \in LangIdx }

\* The locale of English whatever the language.
EnglishLocale(langName) == "en-US"

\* languageKeywords[langName] || 'en-US'
LocaleOf(langName) ==
  IF \E i \in LangIdx : languageKeywords[i].name = langName
  THEN languageKeywords[CHOOSE i \in LangIdx : languageKeywords[i].name = langName].code
  ELSE "en-US"

\* The four switch phrases of the language detection loop.
kSpeakIn  == <<"s","p","e","a","k"," ","i","n"," ">>
kSwitchTo == <<"s","w","i","t","c","h"," ","t","o"," ">>
kTalkIn   == <<"t","a","l","k"," ","i","n"," ">>
kChangeLanguageTo ==
  <<"c","h","a","n","g","e"," ","l","a","n","g","u","a","g","e"," ","t","o"," ">>
SwitchPhrases == { kSpeakIn, kSwitchTo, kTalkIn, kChangeLanguageTo }

\* The condition of the language detection loop for language i.
SwitchMatches(lowerQuestion, i) ==
  \E p \in SwitchPhrases :
    includes(lowerQuestion, p \o toLowerCase(languageKeywords[i].chars))

\* The language the loop switches to: the first entry that matches, 0 if none.
SwitchTarget(lowerQuestion) ==
  IF \E i \in LangIdx : SwitchMatches(lowerQuestion, i)
  THEN CHOOSE i \in LangIdx :
         /\ SwitchMatches(lowerQuestion, i)
         /\ \A j \in LangIdx : SwitchMatches(lowerQuestion, j) => i <= j
  ELSE 0

\* pinKeywords
pinKeywords ==
  { <<"p","i","n"," ","t","h","i","s">>,
    <<"s","a","v","e"," ","t","h","i","s">>,
    <<"r","e","m","e","m","b","e","r"," ","t","h","i","s">>,
    <<"p","i","n"," ","l","o","c","a","t","i","o","n">>,
    <<"s","a","v","e"," ","l","o","c","a","t","i","o","n">>,
    <<"p","i","n">>,
    <<"s","a","v","e">> }

\* isPinIntent
IsPinIntent(lowerQuestion) == \E k \in pinKeywords : includes(lowerQuestion, k)

\* navKeywords
navKeywords ==
  { <<"w","h","e","r","e"," ","i","s">>,
    <<"f","i","n","d">>,
    <<"n","a","v","i","g","a","t","e"," ","t","o">>,
    <<"g","o"," ","t","o">>,
    <<"l","o","o","k","i","n","g"," ","f","o","r">>,
    <<"w","a","s","h","r","o","o","m">>,
    <<"t","o","i","l","e","t">>,
    <<"e","x","i","t">>,
    <<"e","l","e","v","a","t","o","r">>,
    <<"r","e","s","t","r","o","o","m">> }

\* isNavIntent
IsNavIntent(lowerQuestion) == \E k \in navKeywords : includes(lowerQuestion, k)

kTranslateTo == <<"t","r","a","n","s","l","a","t","e"," ","t","o"," ">>

\* targetLangForThisRequest: the first language named after "translate to ",
\* else the language the ref holds.
TranslateTarget(lowerQuestion, refLang) ==
  LET hit(i) == includes(lowerQuestion, kTranslateTo \o toLowerCase(languageKeywords[i].chars))
  IN IF \E i \in LangIdx : hit(i)
     THEN languageKeywords[CHOOSE i \in LangIdx :
                             hit(i) /\ \A j \in LangIdx : hit(j) => i <= j].name
     ELSE refLang

\* -------------------------------------------------------------------- texts
\* Every string the program stores or speaks is a record of one shape:
\* kind says which string it is, tag names an opaque content or a catalog
\* language, arg carries an embedded utterance and of an embedded text.
Text(kind, tag, arg, of) == [kind |-> kind, tag |-> tag, arg |-> arg, of |-> of]
EmptyText == Text("empty", "", <<>>, <<>>)      \* ""
NullText  == Text("null", "", <<>>, <<>>)       \* null, or no value yet
UndefinedText == Text("undefined", "", <<>>, <<>>) \* a property the object lacks
Falsy(t)  == t.kind \in {"empty", "null", "undefined"}  \* !t
Utter(q)  == Text("utterance", "", q, <<>>)     \* the utterance itself
ListeningText(q) == Text("listening", "", q, <<>>) \* `Listening: "${question}"`
WarningText(h) == Text("warning", h.tag, <<>>, <<>>)  \* `Warning: ${analysis.hazard}`

\* Languages for which getSystemMessage has a table.
CatalogLanguages == {"English", "Spanish", "French", "German", "Hindi"}

\* getSystemMessage(key, param) read with currentLanguage = lang:
\* messages[lang] || messages["English"], then [key].
getSystemMessage(lang, key, param) ==
  Text(key, IF lang \in CatalogLanguages THEN lang ELSE "English", <<>>,
       IF key \in {"navigating", "sign_hunting"} THEN <<param>> ELSE <<>>)

\* Languages with an entry in handleLanguageChange's confirmations table.
ConfirmationLanguages == LanguageNames

\* confirmations[langName] || `Language set to ${langName}.`
ConfirmationText(langName) ==
  IF langName \in ConfirmationLanguages
  THEN Text("confirmation", langName, <<>>, <<>>)
  ELSE Text("confirmation_template", langName, <<>>, <<>>)

\* ----------------------------------------------------------- vision results
Analysis(d, h, n) == [description |-> d, hazard |-> h, navigation |-> n]
NoAnalysis == Analysis(NullText, NullText, NullText)
SceneText  == Text("description", "scene", <<>>, <<>>)
HazardText == Text("hazard", "wet floor", <<>>, <<>>)
GuideText  == Text("navigation", "turn left", <<>>, <<>>)

\* What describeScene returns from its catch block.
SafeDefaultAnalysis ==
  Analysis(Text("description", "trouble seeing", <<>>, <<>>),
           Text("hazard", "Visual system error.", <<>>, <<>>),
           NullText)

\* JSON.parse of the text describeScene puts in the place of an empty
\* response.text: '{"description": "I cannot see clearly.", "hazard": null}'.
EmptyResponseAnalysis ==
  Analysis(Text("description", "I cannot see clearly.", <<>>, <<>>),
           NullText,
           UndefinedText)

\* What describeScene returns: the parsed answer of the model (outcome
\* "ok", an object of the response schema), the parsed stand-in text when
\* response.text is empty (outcome "empty"), or the safe default when
\* generateContent or JSON.parse throws (outcome "error").
describeScene(outcome, hasHazard, hasNavigation) ==
  IF outcome = "error" THEN SafeDefaultAnalysis
  ELSE IF outcome = "empty" THEN EmptyResponseAnalysis
  ELSE Analysis(SceneText,
                IF hasHazard THEN HazardText ELSE NullText,
                IF hasNavigation THEN GuideText ELSE NullText)

VisionOutcomes == {"ok", "empty", "error"}

\* ------------------------------------------------------------------- state
VARIABLES
  isLoading,            \* useState(false): the busy flag
  lastDescription,      \* useState("")
  lastSceneDescription, \* useState("")
  solanaBalance,        \* useState(1.245), in thousandths
  navigationTarget,     \* useState(null)
  currentLanguage,      \* useState("English")
  currentLanguageRef,   \* useRef("English")
  error,                \* useState(null)
  isAudioPlaying,       \* useState(false)
  goldenPath,           \* useState([])
  voiceSnap,            \* the render whose handleUserQuestion recognition calls
  recognitionLang,      \* recognitionRef.current.lang
  synthSupported,       \* whether window.speechSynthesis exists in this browser
  apiKey,               \* process.env.ELEVENLABS_API_KEY || ""
  isSnowflakeConnected, \* useState(null): "null", "true" or "false"
  audio,                \* the <audio> element: source call and playback state
  synth,                \* window.speechSynthesis: the utterance queue
  calls,                \* the playMessage invocations still alive, by call number
  turns,                \* the suspended handler invocations
  registry,             \* the rows of SPATIAL_REGISTRY
  events,               \* turn triggers delivered so far
  clicks,               \* other clicks delivered so far
  lastTrigger           \* the last trigger and whether its handler went ahead

vars == << isLoading, lastDescription, lastSceneDescription, solanaBalance,
           navigationTarget, currentLanguage, currentLanguageRef, error,
           isAudioPlaying, goldenPath, voiceSnap, recognitionLang,
           synthSupported, apiKey, isSnowflakeConnected, audio, synth, calls,
           turns, registry, events, clicks, lastTrigger >>

reactVars  == << lastDescription, lastSceneDescription, solanaBalance,
                 navigationTarget, currentLanguage, error, goldenPath >>
langVars   == << currentLanguage, currentLanguageRef, voiceSnap, recognitionLang >>
speechVars == << isAudioPlaying, audio, synth, calls >>
mountVars  == << synthSupported, apiKey, isSnowflakeConnected >>

\* The state a handler closes over: the values of the render that made it.
RenderSnapshot ==
  [ isLoading            |-> isLoading,
    navigationTarget     |-> navigationTarget,
    lastDescription      |-> lastDescription,
    lastSceneDescription |-> lastSceneDescription,
    currentLanguage      |-> currentLanguage ]

\* useState(1.245) and the 0.005 credit, in thousandths.
InitialBalance == 1245
RewardStep == 5

\* A registry row.
Node(desc, golden) == [description |-> desc, isGoldenPath |-> golden]
ElevatorNode ==
  Node(Text("node", "", <<"E","l","e","v","a","t","o","r"," ","b","a","n","k">>, <<>>), TRUE)

\* A row saved by pinLocation in an earlier session: isGoldenPath is false.
ExitPin ==
  [ description |-> Text("node", "", <<"E","x","i","t"," ","s","i","g","n">>, <<>>),
    isGoldenPath |-> FALSE ]

\* The values of the first render.
FirstRender ==
  [ isLoading |-> FALSE, navigationTarget |-> NullText,
    lastDescription |-> EmptyText, lastSceneDescription |-> EmptyText,
    currentLanguage |-> "English" ]

IdleTurn ==
  [ kind |-> "none", pc |-> "idle", snap |-> FirstRender, question |-> <<>>,
    lang |-> "", analysis |-> NoAnalysis, await |-> 0, ops |-> <<>>,
    pin |-> NullText ]

\* -------------------------------------------------------------- utterances
\* The recognition results the model delivers: phrases of at most MaxWords
\* fragments joined by single spaces.
Fragments ==
  << <<"p","i","n">>,
     <<"e","x","i","t">>,
     <<"S","w","i","t","c","h"," ","t","o"," ","F","r","e","n","c","h">>,
     <<"t","r","a","n","s","l","a","t","e"," ","t","o"," ","g","e","r","m","a","n">>,
     <<"h","e","l","l","o">>,
     <<"e","l","e","v","a","t","o","r">> >>

RECURSIVE Join(_)
Join(ws) ==
  IF Len(ws) = 0 THEN <<>>
  ELSE IF Len(ws) = 1 THEN Fragments[ws[1]]
  ELSE Fragments[ws[1]] \o <<" ">> \o Join(Tail(ws))

WordLists == UNION { [1..n -> 1..Len(Fragments)] : n \in 1..MaxWords }
Utterances == { Join(ws) : ws \in WordLists } \cup { Join(<<i>>) : i \in 1..Len(Fragments) }

\* The one-fragment results.
ShortUtterances == { Join(<<i>>) : i \in 1..Len(Fragments) }

\* "Switch to French speak in spanish": two switch phrases, two languages.
TwoLanguages ==
  Fragments[3] \o <<" ">> \o kSpeakIn \o toLowerCase(languageKeywords[1].chars)

\* "translate to german exit"
TranslateExit == Join(<<4, 2>>)

\* The results delivered on a journey; the empty transcript is one of them.
JourneyUtterances == ShortUtterances \cup {TranslateExit, TwoLanguages, <<>>}

\* What handleUserQuestion derives from each utterance, computed once:
\* the language the detection loop switches to (0: none), isPinIntent,
\* isNavIntent, and the "translate to" language ("": none).
UtteranceFacts ==
  [ q \in Utterances \cup JourneyUtterances |->
      [ switch    |-> SwitchTarget(toLowerCase(q)),
        pin       |-> IsPinIntent(toLowerCase(q)),
        nav       |-> IsNavIntent(toLowerCase(q)),
        translate |-> TranslateTarget(toLowerCase(q), "") ] ]

\* The branches with isNavIntent tested before isPinIntent.
BranchNavigateFirst(question) ==
  IF UtteranceFacts[question].switch # 0 THEN "language"
  ELSE IF UtteranceFacts[question].nav THEN "navigate"
  ELSE IF UtteranceFacts[question].pin THEN "pin"
  ELSE "question"

\* The branch handleUserQuestion takes, in the order its conditions are
\* tested: the language detection loop, isPinIntent, isNavIntent, else the
\* free-form question.
Branch(question) ==
  IF UtteranceFacts[question].switch # 0 THEN "language"
  ELSE IF UtteranceFacts[question].pin THEN "pin"
  ELSE IF UtteranceFacts[question].nav THEN "navigate"
  ELSE "question"

\* ------------------------------------------------------------- credentials
\* The remote voice keys a deployment may have: none, or a key.
ApiKeys == {"", "sk_key"}

\* process.env.ELEVENLABS_VOICE_ID || "pMs7uS297jtjz4kyM997"
voiceId == "pMs7uS297jtjz4kyM997"

\* The guard of ElevenLabsService.speak: with it true, speak returns null
\* and makes no request.
CredentialsMissing(key, voice) ==
  key = "" \/ voice = "" \/ key = "MY_ELEVENLABS_KEY"

\* How the request of ElevenLabsService.speak ends: an OK response, a
\* response with another status, or a fetch (or body read) that throws.
RemoteOutcomes == {"ok", "notOk", "networkError"}

\* speak without the test of response.ok.
speakIgnoresStatus(key, voice, outcome) ==
  IF CredentialsMissing(key, voice) THEN "null"
  ELSE IF outcome = "networkError" THEN "null" ELSE "url"

\* ElevenLabsService.speak: null at the guard, null from the !response.ok
\* branch and from the catch block, an object URL after an OK response.
speak(key, voice, outcome) ==
  IF CredentialsMissing(key, voice) THEN "null"
  ELSE IF outcome = "ok" THEN "url" ELSE "null"

\* -------------------------------------------------------------------- Init
\* The state after the first render and mount: every useState holds its
\* initial value, setupSpeechRecognition() has armed recognition with the
\* handlers of the first render, and the registry holds its seeded row.
\* The answer to loadSpatialData's request has not arrived: goldenPath is [].
Mounted ==
  /\ isLoading = FALSE
  /\ lastDescription = EmptyText
  /\ lastSceneDescription = EmptyText
  /\ solanaBalance = InitialBalance
  /\ navigationTarget = NullText
  /\ currentLanguage = "English"
  /\ currentLanguageRef = "English"
  /\ error = NullText
  /\ isAudioPlaying = FALSE
  /\ goldenPath = {}
  /\ voiceSnap = FirstRender
  /\ recognitionLang = "en-US"
  /\ synthSupported \in BOOLEAN
  /\ apiKey \in ApiKeys
  /\ isSnowflakeConnected = "null"
  /\ audio = [src |-> 0, st |-> "idle"]
  /\ synth = <<>>
  /\ calls = <<>>
  /\ turns = [t \in 1..MaxTurns |-> IdleTurn]
  /\ events = 0
  /\ clicks = 0
  /\ lastTrigger = [kind |-> "none", busy |-> FALSE, accepted |-> FALSE]

\* The application mounted over the registry with its seeded row.
Init == Mounted /\ registry = {ElevatorNode}

\* The application mounted over a registry in which an earlier session has
\* left a pin that is still awaiting audit.
InitJourney == Mounted /\ registry = {ElevatorNode, ExitPin}

\* --------------------------------------------------------------- scheduling
CallIds == DOMAIN calls
TurnIds == 1..MaxTurns

SpeakWaits == {"speakWarning", "speakGuidance", "speakAnnounce",
               "speakDescription", "speakPinned", "speakPinFailed"}

\* A turn is in progress from the moment its handler passes its guard until
\* its last statement has run.
InProgress(t) == turns[t].pc # "idle"

\* A promise the turn awaits has settled: its continuation is a microtask.
TurnReady(t) ==
  /\ turns[t].pc \in SpeakWaits
  /\ calls[turns[t].await].pc \in {"returned", "threw"}

\* A settled promise inside playMessage whose continuation has not run yet:
\* a rejected play(), or the null elevenLabs.speak returned at its guard.
CallReady(c) == calls[c].pc \in {"aborted", "nokey"}

\* Run to completion: the event loop takes the next task (a click, a
\* recognition result, a network answer, a media event) only when no
\* microtask is pending.
NoMicrotask ==
  /\ \A t \in TurnIds : ~TurnReady(t)
  /\ \A c \in CallIds : ~CallReady(c)

FreeSlots == { t \in TurnIds : ~InProgress(t) }
FreeSlot  == CHOOSE t \in FreeSlots : \A u \in FreeSlots : t <= u

\* A new turn trigger, or another click, may be delivered.
CanTrigger == events < MaxEvents /\ NoMicrotask
CanClick   == clicks < MaxClicks /\ NoMicrotask

\* An entry of a turn's log: the operation issued, the text it carries (the
\* text spoken, the target sent, the description saved) and its language.
Op(name, text, lang) ==
  [op |-> name, text |-> text, lang |-> lang, question |-> UndefinedText]

\* A describeScene call: question, navigationTarget || undefined and
\* targetLanguage.
VisionOp(target, lang, question) ==
  [Op("vision", target, lang) EXCEPT !.question = question]

\* ------------------------------------------------------------- playMessage
\* A playMessage invocation stays in calls while its promise is pending,
\* while a turn still has to resume from it, and while its output is in the
\* audio element or in the synthesis queue.  Call numbers grow with time, so
\* of two living calls the one with the larger number was made later.
LiveCall(c, k, a, s) ==
  \/ c[k].pc \in {"remote", "nokey", "play", "aborted"}
  \/ c[k].pc \in {"returned", "threw"} /\ c[k].owner # 0
  \/ a.src = k
  \/ \E i \in 1..Len(s) : s[i].call = k

Prune(c, a, s) ==
  [ k \in { x \in DOMAIN c : LiveCall(c, x, a, s) } |-> c[k] ]

NewCallId(c) ==
  IF DOMAIN c = {} THEN 1
  ELSE 1 + CHOOSE m \in DOMAIN c : \A x \in DOMAIN c : x <= m

\* The number the next playMessage call gets, made on top of `base`.
AwaitId(base) == NewCallId(Prune(base, audio, <<>>))

\* The turn t has resumed from the call it awaited.
Consume(t) == [calls EXCEPT ![turns[t].await].owner = 0]

\* playMessage up to its first await: setIsAudioPlaying(true), then inside
\* the try window.speechSynthesis.cancel() and the call of elevenLabs.speak,
\* which makes its request only with credentials.
\* Without window.speechSynthesis the cancel throws, the catch block's
\* new SpeechSynthesisUtterance throws too, and the call rejects.
PlayMessageCall(text, owner) ==
  [ text |-> text, owner |-> owner,
    pc |-> IF ~synthSupported THEN "threw"
           ELSE IF CredentialsMissing(apiKey, voiceId) THEN "nokey"
           ELSE "remote" ]

StartSpeak(text, owner, base) ==
  /\ isAudioPlaying' = TRUE
  /\ synth' = <<>>
  /\ calls' = Prune((AwaitId(base) :> PlayMessageCall(text, owner))
                      @@ Prune(base, audio, <<>>), audio, <<>>)
  /\ UNCHANGED audio

\* The utterance playMessage hands to window.speechSynthesis.speak.
Utterance(c, lang) == [call |-> c, lang |-> lang]

\* elevenLabs.speak returned null at its guard: playMessage resumes in a
\* microtask and the native branch speaks the text with the ref language's
\* locale.
RemoteSkipped(c) ==
  /\ calls[c].pc = "nokey"
  /\ synth' = Append(synth, Utterance(c, LocaleOf(currentLanguageRef)))
  /\ calls' = Prune([calls EXCEPT ![c].pc = "returned"], audio, synth')
  /\ UNCHANGED << isAudioPlaying, audio, isLoading, reactVars, langVars,
                  mountVars, turns, registry, events, clicks, lastTrigger >>

\* The request of elevenLabs.speak ended and speak returned.  null (non-OK
\* answer, network error): the native branch speaks the text with the ref
\* language's locale.  A URL: the audio element is paused, re-sourced and
\* play() is called; a play() promise still pending on the element is
\* rejected with AbortError.
RemoteReturn(c, outcome) ==
  /\ calls[c].pc = "remote"
  /\ NoMicrotask
  /\ IF speak(apiKey, voiceId, outcome) = "url"
     THEN /\ audio' = [src |-> c, st |-> "loading"]
          /\ UNCHANGED synth
          /\ calls' = Prune([ k \in CallIds |->
                          IF k = c THEN [calls[k] EXCEPT !.pc = "play"]
                          ELSE IF calls[k].pc = "play" THEN [calls[k] EXCEPT !.pc = "aborted"]
                          ELSE calls[k] ], audio', synth')
     ELSE /\ synth' = Append(synth, Utterance(c, LocaleOf(currentLanguageRef)))
          /\ UNCHANGED audio
          /\ calls' = Prune([calls EXCEPT ![c].pc = "returned"], audio', synth')
  /\ UNCHANGED << isAudioPlaying, isLoading, reactVars, langVars, mountVars,
                  turns, registry, events, clicks, lastTrigger >>

\* audioRef.current.play() resolved: playback has started.
PlayStarted(c) ==
  /\ calls[c].pc = "play"
  /\ NoMicrotask
  /\ audio' = [audio EXCEPT !.st = "playing"]
  /\ calls' = Prune([calls EXCEPT ![c].pc = "returned"], audio', synth)
  /\ UNCHANGED << isAudioPlaying, synth, isLoading, reactVars, langVars,
                  mountVars, turns, registry, events, clicks, lastTrigger >>

\* play() rejected with an error other than AbortError (autoplay policy,
\* unsupported source): the inner catch speaks the text natively, with no
\* utterance.lang set.
PlayFailed(c) ==
  /\ calls[c].pc = "play"
  /\ NoMicrotask
  /\ audio' = [src |-> 0, st |-> "idle"]
  /\ synth' = Append(synth, Utterance(c, "default"))
  /\ calls' = Prune([calls EXCEPT ![c].pc = "returned"], audio', synth')
  /\ UNCHANGED << isAudioPlaying, isLoading, reactVars, langVars,
                  mountVars, turns, registry, events, clicks, lastTrigger >>

\* play() rejected with AbortError: the inner catch sets isAudioPlaying false.
PlayAborted(c) ==
  /\ calls[c].pc = "aborted"
  /\ isAudioPlaying' = FALSE
  /\ calls' = Prune([calls EXCEPT ![c].pc = "returned"], audio, synth)
  /\ UNCHANGED << audio, synth, isLoading, reactVars, langVars,
                  mountVars, turns, registry, events, clicks, lastTrigger >>

\* The audio element fired 'ended': handleEnd.
AudioEnded ==
  /\ audio.st = "playing"
  /\ NoMicrotask
  /\ audio' = [src |-> 0, st |-> "idle"]
  /\ isAudioPlaying' = FALSE
  /\ calls' = Prune(calls, audio', synth)
  /\ UNCHANGED << synth, isLoading, reactVars, langVars,
                  mountVars, turns, registry, events, clicks, lastTrigger >>

\* The utterance being spoken finished: utterance.onend.
UtteranceEnded ==
  /\ synth # <<>>
  /\ NoMicrotask
  /\ synth' = Tail(synth)
  /\ isAudioPlaying' = FALSE
  /\ calls' = Prune(calls, audio, synth')
  /\ UNCHANGED << audio, isLoading, reactVars, langVars,
                  mountVars, turns, registry, events, clicks, lastTrigger >>

\* --------------------------------------------------------- turn bookkeeping
Trigger(kind, accepted) == [kind |-> kind, busy |-> isLoading, accepted |-> accepted]

\* A handler whose guard returned at once: nothing but the trigger is noted.
Rejected(kind) ==
  /\ lastTrigger' = Trigger(kind, FALSE)
  /\ events' = events + 1
  /\ UNCHANGED << isLoading, reactVars, currentLanguageRef, voiceSnap,
                  recognitionLang, speechVars, mountVars, turns, registry,
                  clicks >>

NewTurn(kind, snap, question) ==
  [ kind |-> kind, pc |-> "idle", snap |-> snap, question |-> question,
    lang |-> "", analysis |-> NoAnalysis, await |-> 0, ops |-> <<>>,
    pin |-> NullText ]

\* rec with its program counter moved and the operations it issued logged.
Step(rec, pc, ops) == [rec EXCEPT !.pc = pc, !.ops = @ \o ops]

\* rec suspended on a playMessage call it has just made on top of `base`.
Speaking(rec, pc, text, base) ==
  [rec EXCEPT !.pc = pc, !.await = AwaitId(base), !.ops = Append(@, Op("speak", text, ""))]

\* The slot table once a handler has suspended with frame rec.
Accepted(rec) == [turns EXCEPT ![FreeSlot] = rec]

\* The slot table once the handler of turn t has returned: its frame is gone.
Returned(t) == [turns EXCEPT ![t] = IdleTurn]

NoSpeech == UNCHANGED speechVars

\* The turn resumed from its awaited call and made no further call.
Resumed(t) ==
  /\ calls' = Prune(Consume(t), audio, synth)
  /\ UNCHANGED << isAudioPlaying, audio, synth >>

\* ------------------------------------------------------- captureAndAnalyze
\* The scan that takes a credit back when its try block did not complete.
ScanFinishDebits(t, completed) ==
  /\ solanaBalance' = IF completed THEN solanaBalance + RewardStep
                      ELSE solanaBalance - RewardStep
  /\ isLoading' = FALSE
  /\ turns' = Returned(t)

\* The finally block, after the reward line when the try block completed.
ScanFinish(t, completed) ==
  /\ solanaBalance' = IF completed THEN solanaBalance + RewardStep ELSE solanaBalance
  /\ isLoading' = FALSE
  /\ turns' = Returned(t)

\* Step 3 of the try block: guidance is spoken when the closure's
\* navigationTarget and analysis.navigation are both truthy; then step 4.
ScanSpeaksGuidance(rec) ==
  ~Falsy(rec.snap.navigationTarget) /\ ~Falsy(rec.analysis.navigation)

ScanGuidance(t, rec, base) ==
  /\ StartSpeak(rec.analysis.navigation, t, base)
  /\ turns' = [turns EXCEPT ![t] = Speaking(rec, "speakGuidance", rec.analysis.navigation, base)]
  /\ UNCHANGED << solanaBalance, isLoading >>

\* The LOOK AROUND click: guard, setIsLoading(true), frame capture, and the
\* describeScene request.
captureAndAnalyze ==
  /\ CanTrigger
  /\ IF isLoading
     THEN Rejected("scan")
     ELSE /\ FreeSlots # {}
          /\ isLoading' = TRUE
          /\ turns' = Accepted(
                 Step(NewTurn("scan", RenderSnapshot, <<>>), "vision",
                      << Op("capture", NullText, ""),
                         VisionOp(navigationTarget, currentLanguageRef, UndefinedText) >>))
          /\ lastTrigger' = Trigger("scan", TRUE)
          /\ events' = events + 1
          /\ UNCHANGED << reactVars, langVars, speechVars, mountVars,
                          registry, clicks >>

\* describeScene resolved in a scan turn: steps 1 and 2 of the try block.
ScanVisionReturn(t, outcome, hasHazard, hasNavigation) ==
  /\ turns[t].kind = "scan" /\ turns[t].pc = "vision"
  /\ NoMicrotask
  /\ LET analysis == describeScene(outcome, hasHazard, hasNavigation)
         rec == [turns[t] EXCEPT !.analysis = analysis]
     IN /\ lastDescription' = analysis.description
        /\ lastSceneDescription' = analysis.description
        /\ IF ~Falsy(analysis.hazard)
           THEN /\ turns' = [turns EXCEPT ![t] =
                      Step(rec, "hazardAlert", <<Op("alert", NullText, "")>>)]
                /\ UNCHANGED << solanaBalance, isLoading >>
                /\ NoSpeech
           ELSE IF ScanSpeaksGuidance(rec)
           THEN ScanGuidance(t, rec, calls)
           ELSE ScanFinish(t, TRUE) /\ NoSpeech
  /\ UNCHANGED << navigationTarget, currentLanguage, error, goldenPath,
                  currentLanguageRef, voiceSnap, recognitionLang,
                  mountVars, registry, events, clicks, lastTrigger >>

\* playHazardAlert resolved (the sound ended or could not play): the
\* warning is spoken.
ScanHazardAlertDone(t) ==
  /\ turns[t].kind = "scan" /\ turns[t].pc = "hazardAlert"
  /\ NoMicrotask
  /\ StartSpeak(WarningText(turns[t].analysis.hazard), t, calls)
  /\ turns' = [turns EXCEPT ![t] =
        Speaking(turns[t], "speakWarning", WarningText(turns[t].analysis.hazard), calls)]
  /\ UNCHANGED << isLoading, reactVars, langVars, mountVars, registry,
                  events, clicks, lastTrigger >>

\* An awaited playMessage settled in a scan turn: a rejection goes to the
\* catch block, otherwise the try block goes on.
ScanSpeakReturned(t) ==
  /\ turns[t].kind = "scan" /\ TurnReady(t)
  /\ IF calls[turns[t].await].pc = "threw"
     THEN ScanFinish(t, FALSE) /\ Resumed(t)
     ELSE IF turns[t].pc = "speakWarning" /\ ScanSpeaksGuidance(turns[t])
     THEN ScanGuidance(t, turns[t], Consume(t))
     ELSE ScanFinish(t, TRUE) /\ Resumed(t)
  /\ UNCHANGED << lastDescription, lastSceneDescription, navigationTarget,
                  currentLanguage, error, goldenPath, currentLanguageRef,
                  voiceSnap, recognitionLang, mountVars, registry,
                  events, clicks, lastTrigger >>

\* --------------------------------------------------------------- registry
\* The rows searchRegistry's statement selects:
\* LOWER(DESCRIPTION) LIKE '%' + query.toLowerCase() + '%'.
SearchMatches(question) ==
  { n \in registry : includes(toLowerCase(n.description.arg), toLowerCase(question)) }

\* The rows fetchGoldenPath's statement selects: IS_GOLDEN_PATH = TRUE.
GoldenRows == { n \in registry : n.isGoldenPath }

\* Every row of the building, whatever its flag.
BuildingRows == registry

\* How a request of searchRegistry or fetchGoldenPath ends: a JSON body
\* with the rows in data; a JSON body without data (the proxy's error
\* answer: credentials missing, the service refused); no JSON to map (fetch
\* rejected, response.json() or the JSON.parse of a row threw).
ReadAnswers == {"rows", "refused", "noAnswer"}

\* The IS_GOLDEN_PATH cell of a row as the service writes it: the string
\* "TRUE"/"FALSE" or the JSON boolean.
CellFormats == {"string", "boolean"}
Cell(flag, format) ==
  [ type  |-> format,
    value |-> IF format = "string" THEN (IF flag THEN "TRUE" ELSE "FALSE")
              ELSE (IF flag THEN "true" ELSE "false") ]
Row(n, format) == [description |-> n.description, cell |-> Cell(n.isGoldenPath, format)]

\* The answers by what they hold: rows in either format, or none.
ReadCases ==
  { c \in ReadAnswers \X CellFormats : c[1] = "rows" \/ c[2] = "string" }

\* The map callback: isGoldenPath: row[4] === "TRUE" || row[4] === true.
NodeOfRow(row) ==
  Node(row.description,
       \/ row.cell.type = "string" /\ row.cell.value = "TRUE"
       \/ row.cell.type = "boolean" /\ row.cell.value = "true")

\* The read operations with a catch block that rethrows, as saveNewPath's
\* does.
ReadRethrows(answer, nodes, none) ==
  [ nodes  |-> IF answer = "rows" THEN nodes ELSE none,
    thrown |-> IF answer = "noAnswer"
               THEN Text("error", "Failed to fetch", <<>>, <<>>) ELSE NullText ]

\* The body of both read operations after the request: the mapped rows when
\* data.data is there, [] when it is not, [] from the catch block when
\* anything in the try block threw.  Nothing is thrown to the caller.
ReadResult(answer, nodes, none) ==
  [ nodes  |-> IF answer = "rows" THEN nodes ELSE none,
    thrown |-> NullText ]

\* searchRegistry, with the rows its statement selected in the order the
\* service lists them.
searchRegistry(answer, rows) ==
  ReadResult(answer, [i \in 1..Len(rows) |-> NodeOfRow(rows[i])], <<>>)

\* fetchGoldenPath without IS_GOLDEN_PATH = TRUE in its statement.
fetchEveryRow(answer, format) ==
  ReadResult(answer, { NodeOfRow(Row(n, format)) : n \in BuildingRows }, {})

\* fetchGoldenPath: the rows its statement selects, mapped.
fetchGoldenPath(answer, format) ==
  ReadResult(answer, { NodeOfRow(Row(n, format)) : n \in GoldenRows }, {})

\* The node pinLocation passes to saveNewPath.
PinnedNode(description) == Node(description, FALSE)

\* ------------------------------------------------------------ saveNewPath
\* The JSON body the proxy answers the insert with, by the fields
\* saveNewPath reads ("" for a field the body lacks).
Data(code, message, err, hint, detail) ==
  [code |-> code, message |-> message, error |-> err, hint |-> hint, detail |-> detail]

\* The statement was executed; the service refused it; the proxy got an
\* error page from the service and answered with its own hint and detail.
InsertSaved   == Data("000000", "Statement executed successfully.", "", "", "")
InsertRefused == Data("002003", "SQL compilation error", "", "", "")
ProxyRefused  == Data("", "", "Snowflake returned an HTML error page instead of JSON.",
                      "Snowflake returned a non-JSON response.", "<html>")
\* No JSON body: fetch rejected, or response.json() threw.
NoAnswer      == Data("none", "", "", "", "")

InsertAnswers == {InsertSaved, InsertRefused, ProxyRefused, NoAnswer}

\* err.message of a fetch that rejected.
NetworkErrorText == Text("error", "Failed to fetch", <<>>, <<>>)

\* "\nHint: ${data.hint}" and "\nDetail: ${data.detail}", "" without the field.
Part(label, value) ==
  IF value = "" THEN <<>> ELSE << Text(label, value, <<>>, <<>>) >>

\* The message without the hint and the detail.
SaveFailedPlain(data) ==
  Text("Snowflake Save Failed",
       IF data.message # "" THEN data.message
       ELSE IF data.error # "" THEN data.error ELSE "Unknown Snowflake error",
       <<>>, <<>>)

\* `Snowflake Save Failed: ${errorMsg}${hint}${detail}`
SaveFailedMessage(data) ==
  Text("Snowflake Save Failed",
       IF data.message # "" THEN data.message
       ELSE IF data.error # "" THEN data.error ELSE "Unknown Snowflake error",
       <<>>, Part("Hint", data.hint) \o Part("Detail", data.detail))

\* How saveNewPath ends once the insert request has ended: the id it
\* returns, or the error it throws.
saveNewPath(data) ==
  IF data = NoAnswer THEN [id |-> NullText, thrown |-> NetworkErrorText]
  ELSE IF data.code = "000000"
  THEN [id |-> Text("id", "node", <<>>, <<>>), thrown |-> NullText]
  ELSE [id |-> NullText, thrown |-> SaveFailedMessage(data)]

\* -------------------------------------------------------- loadSpatialData
\* The fetchGoldenPath call made at mount settled.  Resolved (with no rows
\* when the request failed): setGoldenPath, setError(null),
\* setIsSnowflakeConnected(true).  Rejected: the catch block's
\* setError(err.message) and setIsSnowflakeConnected(false).
loadSpatialData(answer, format) ==
  /\ isSnowflakeConnected = "null"
  /\ NoMicrotask
  /\ LET path == fetchGoldenPath(answer, format)
     IN IF path.thrown = NullText
        THEN /\ goldenPath' = path.nodes
             /\ error' = NullText
             /\ isSnowflakeConnected' = "true"
        ELSE /\ UNCHANGED goldenPath
             /\ error' = path.thrown
             /\ isSnowflakeConnected' = "false"
  /\ UNCHANGED << isLoading, lastDescription, lastSceneDescription, solanaBalance,
                  navigationTarget, langVars, speechVars, synthSupported,
                  apiKey, turns, registry, events, clicks, lastTrigger >>

\* ------------------------------------------------------------ pinLocation
\* descriptionToPin, read from the closure.
DescriptionToPin(snap) ==
  IF ~Falsy(snap.lastSceneDescription) THEN snap.lastSceneDescription
  ELSE snap.lastDescription

\* pinLocation's guard, read from the closure.
PinGuardPasses(snap) == ~Falsy(DescriptionToPin(snap)) /\ ~snap.isLoading

\* The pin button: pinLocation up to the first request of saveNewPath, the
\* CREATE TABLE IF NOT EXISTS statement.
pinLocation ==
  /\ CanTrigger
  /\ IF ~PinGuardPasses(RenderSnapshot)
     THEN Rejected("pin")
     ELSE /\ FreeSlots # {}
          /\ isLoading' = TRUE
          /\ turns' = Accepted(
                 Step([NewTurn("pin", RenderSnapshot, <<>>) EXCEPT
                         !.pin = DescriptionToPin(RenderSnapshot)],
                      "save", << Op("save", DescriptionToPin(RenderSnapshot), "") >>))
          /\ lastTrigger' = Trigger("pin", TRUE)
          /\ events' = events + 1
          /\ UNCHANGED << reactVars, langVars, speechVars, mountVars,
                          registry, clicks >>

\* The catch block of pinLocation: the error is shown and pin_failed spoken.
PinApology(t, base) ==
  LET msg == getSystemMessage(turns[t].snap.currentLanguage, "pin_failed", NullText)
  IN /\ StartSpeak(msg, t, base)
     /\ turns' = [turns EXCEPT ![t] = Speaking(turns[t], "speakPinFailed", msg, base)]

\* The catch block with the error it caught.
PinCatch(t, err, base) ==
  /\ error' = err
  /\ PinApology(t, base)

\* pinLocation sending the save again when the create request is rejected.
PinCreateRetried(t, answered) ==
  /\ turns[t].pc = "save"
  /\ NoMicrotask
  /\ turns' = [turns EXCEPT ![t] =
        IF answered THEN Step(turns[t], "insert", <<Op("insert", turns[t].pin, "")>>)
        ELSE Step(turns[t], "save", <<Op("save", turns[t].pin, "")>>)]
  /\ NoSpeech
  /\ UNCHANGED << isLoading, reactVars, langVars, mountVars, registry, events,
                  clicks, lastTrigger >>

\* The create request of saveNewPath ended.  Answered (its body is not
\* read): the insert request goes out.  Rejected: saveNewPath rethrows and
\* pinLocation's catch block runs.
PinCreateReturn(t, answered) ==
  /\ turns[t].pc = "save"
  /\ NoMicrotask
  /\ IF answered
     THEN /\ turns' = [turns EXCEPT ![t] =
                Step(turns[t], "insert", <<Op("insert", turns[t].pin, "")>>)]
          /\ UNCHANGED error
          /\ NoSpeech
     ELSE PinCatch(t, NetworkErrorText, calls)
  /\ UNCHANGED << isLoading, lastDescription, lastSceneDescription, solanaBalance,
                  navigationTarget, currentLanguage, goldenPath, currentLanguageRef,
                  voiceSnap, recognitionLang, mountVars, registry, events,
                  clicks, lastTrigger >>

\* The insert request of saveNewPath ended and saveNewPath settled.
\* Resolved: setError(null) and the fetchGoldenPath request.  Rejected: the
\* catch block.
PinInsertReturn(t, data) ==
  /\ turns[t].pc = "insert"
  /\ NoMicrotask
  /\ LET saved == saveNewPath(data)
     IN IF saved.thrown = NullText
        THEN /\ registry' = registry \cup {PinnedNode(turns[t].pin)}
             /\ error' = NullText
             /\ turns' = [turns EXCEPT ![t] = Step(turns[t], "fetch", <<Op("fetch", NullText, "")>>)]
             /\ NoSpeech
        ELSE /\ UNCHANGED registry
             /\ PinCatch(t, saved.thrown, calls)
  /\ UNCHANGED << isLoading, lastDescription, lastSceneDescription, solanaBalance,
                  navigationTarget, currentLanguage, goldenPath, currentLanguageRef,
                  voiceSnap, recognitionLang, mountVars, events, clicks,
                  lastTrigger >>

\* fetchGoldenPath settled.  Resolved (with no rows when the request
\* failed): setGoldenPath and the pinned message.  Rejected: the catch block.
PinFetchReturn(t, answer, format) ==
  /\ turns[t].pc = "fetch"
  /\ NoMicrotask
  /\ LET path == fetchGoldenPath(answer, format)
         msg  == getSystemMessage(turns[t].snap.currentLanguage, "pinned", NullText)
     IN IF path.thrown = NullText
        THEN /\ goldenPath' = path.nodes
             /\ UNCHANGED error
             /\ StartSpeak(msg, t, calls)
             /\ turns' = [turns EXCEPT ![t] = Speaking(turns[t], "speakPinned", msg, calls)]
        ELSE /\ UNCHANGED goldenPath
             /\ PinCatch(t, path.thrown, calls)
  /\ UNCHANGED << isLoading, lastDescription, lastSceneDescription, solanaBalance,
                  navigationTarget, currentLanguage, currentLanguageRef,
                  voiceSnap, recognitionLang, mountVars, registry, events,
                  clicks, lastTrigger >>

\* An awaited playMessage settled in pinLocation: a rejected "pinned"
\* message goes to the catch block, everything else to the finally block
\* (after which a voice turn runs its own setIsLoading(false)).
PinSpeakReturned(t) ==
  /\ TurnReady(t)
  /\ turns[t].pc \in {"speakPinned", "speakPinFailed"}
  /\ IF turns[t].pc = "speakPinned" /\ calls[turns[t].await].pc = "threw"
     THEN /\ PinCatch(t, Text("error", "speech", <<>>, <<>>), Consume(t))
          /\ UNCHANGED isLoading
     ELSE /\ isLoading' = FALSE
          /\ turns' = Returned(t)
          /\ Resumed(t)
          /\ UNCHANGED error
  /\ UNCHANGED << lastDescription, lastSceneDescription, solanaBalance,
                  navigationTarget, currentLanguage, goldenPath, currentLanguageRef,
                  voiceSnap, recognitionLang, mountVars, registry, events,
                  clicks, lastTrigger >>

\* ----------------------------------------------------- handleLanguageChange
\* handleLanguageChange(langName) run by a handler of the render `render`:
\* the state and the ref take the language, recognition is re-armed with the
\* handlers of that same render, and the confirmation is spoken unawaited.
handleLanguageChange(langName, render) ==
  /\ currentLanguage' = langName
  /\ currentLanguageRef' = langName
  /\ recognitionLang' = LocaleOf(langName)
  /\ voiceSnap' = render
  /\ StartSpeak(ConfirmationText(langName), 0, calls)

\* The language selector's onChange.
LanguageSelected(langName) ==
  /\ CanClick
  /\ langName # currentLanguage
  /\ handleLanguageChange(langName, RenderSnapshot)
  /\ clicks' = clicks + 1
  /\ UNCHANGED << isLoading, lastDescription, lastSceneDescription, solanaBalance,
                  navigationTarget, error, goldenPath, mountVars, turns,
                  registry, events, lastTrigger >>

\* ------------------------------------------------------ handleUserQuestion
\* The finally block of handleUserQuestion.
VoiceFinish(t) ==
  /\ isLoading' = FALSE
  /\ turns' = Returned(t)

\* The describeScene call of a voice turn written as the scan's: no question.
VoiceVisionOpAsScan(rec) ==
  VisionOp(rec.snap.navigationTarget, rec.lang, UndefinedText)

\* The describeScene request of a voice turn: the closure's navigationTarget
\* and the language of this request.
VoiceVisionOp(rec) ==
  VisionOp(rec.snap.navigationTarget, rec.lang, Utter(rec.question))

\* The translate loop with the language it finds written to the ref.
RefTakesTranslation(translate) ==
  IF translate # "" THEN translate ELSE currentLanguageRef

\* The ref after the translate loop: the loop assigns the local
\* targetLangForThisRequest, and currentLanguageRef.current keeps its value.
RefAfterTranslate(translate) == currentLanguageRef

\* recognition.onresult: handleUserQuestion(transcript), read with the
\* render that armed recognition, up to its first suspension.
handleUserQuestion(question) ==
  LET snap  == voiceSnap
      facts == UtteranceFacts[question]
      turn  == [NewTurn("voice", snap, question) EXCEPT
                  !.lang = IF facts.translate # "" THEN facts.translate
                           ELSE currentLanguageRef]
  IN
  /\ CanTrigger
  /\ IF snap.isLoading
     THEN Rejected("voice")
     ELSE
       /\ FreeSlots # {}
       /\ lastTrigger' = Trigger("voice", TRUE)
       /\ events' = events + 1
       /\ lastDescription' = ListeningText(question)
       /\ UNCHANGED << lastSceneDescription, solanaBalance, navigationTarget,
                       error, goldenPath, mountVars, registry, clicks >>
       /\ CASE Branch(question) = "language" ->
               \* handleLanguageChange(langName); setIsLoading(false); return
               /\ handleLanguageChange(languageKeywords[facts.switch].name, snap)
               /\ isLoading' = FALSE
               /\ UNCHANGED turns
            [] Branch(question) = "pin" ->
               \* await pinLocation(); setIsLoading(false); return
               /\ UNCHANGED << langVars, speechVars >>
               /\ IF PinGuardPasses(snap)
                  THEN /\ isLoading' = TRUE
                       /\ turns' = Accepted(
                             Step([turn EXCEPT !.pin = DescriptionToPin(snap)], "save",
                                  << Op("save", DescriptionToPin(snap), "") >>))
                  ELSE /\ isLoading' = FALSE
                       /\ UNCHANGED turns
            [] Branch(question) = "navigate" ->
               \* the translate loop, frame capture, then the searchRegistry
               \* request
               /\ currentLanguageRef' = RefAfterTranslate(facts.translate)
               /\ UNCHANGED << currentLanguage, voiceSnap, recognitionLang, speechVars >>
               /\ isLoading' = TRUE
               /\ turns' = Accepted(
                     Step(turn, "search",
                          << Op("capture", NullText, ""),
                             Op("search", Utter(question), "") >>))
            [] Branch(question) = "question" ->
               \* the translate loop, frame capture, then the describeScene
               \* request
               /\ currentLanguageRef' = RefAfterTranslate(facts.translate)
               /\ UNCHANGED << currentLanguage, voiceSnap, recognitionLang, speechVars >>
               /\ isLoading' = TRUE
               /\ turns' = Accepted(
                     Step(turn, "vision",
                          << Op("capture", NullText, ""), VoiceVisionOp(turn) >>))

\* A no-match resolution that clears the target.
ResolvedTargetOrNone(locations, question) ==
  IF locations # <<>> THEN locations[1].description ELSE NullText

\* A no-match resolution that stores the empty string.
ResolvedTargetOrEmpty(locations, question) ==
  IF locations # <<>> THEN locations[1].description ELSE EmptyText

\* What the isNavIntent branch passes to setNavigationTarget: the first
\* row's description, or the utterance when there is no row.
ResolvedTarget(locations, question) ==
  IF locations # <<>> THEN locations[1].description ELSE Utter(question)

\* searchRegistry resolved (with no rows when the request failed): the
\* target is set to the first row's description or to the utterance, and
\* the matching announcement is spoken.
VoiceSearchReturn(t, locations) ==
  /\ turns[t].kind = "voice" /\ turns[t].pc = "search"
  /\ NoMicrotask
  /\ \A i \in 1..Len(locations) : locations[i] \in SearchMatches(turns[t].question)
  /\ LET target == ResolvedTarget(locations, turns[t].question)
         msg == getSystemMessage(turns[t].snap.currentLanguage,
                                 IF locations # <<>> THEN "navigating" ELSE "sign_hunting",
                                 target)
     IN /\ navigationTarget' = target
        /\ StartSpeak(msg, t, calls)
        /\ turns' = [turns EXCEPT ![t] = Speaking(turns[t], "speakAnnounce", msg, calls)]
  /\ UNCHANGED << isLoading, lastDescription, lastSceneDescription, solanaBalance,
                  currentLanguage, error, goldenPath, currentLanguageRef, voiceSnap,
                  recognitionLang, mountVars, registry, events, clicks,
                  lastTrigger >>

\* describeScene resolved in a voice turn: the description is stored and
\* spoken.
VoiceVisionReturn(t, outcome, hasHazard, hasNavigation) ==
  /\ turns[t].kind = "voice" /\ turns[t].pc = "vision"
  /\ NoMicrotask
  /\ LET analysis == describeScene(outcome, hasHazard, hasNavigation)
         rec == [turns[t] EXCEPT !.analysis = analysis]
     IN /\ lastDescription' = analysis.description
        /\ lastSceneDescription' = analysis.description
        /\ StartSpeak(analysis.description, t, calls)
        /\ turns' = [turns EXCEPT ![t] =
              Speaking(rec, "speakDescription", analysis.description, calls)]
  /\ UNCHANGED << isLoading, solanaBalance, navigationTarget, currentLanguage,
                  error, goldenPath, currentLanguageRef, voiceSnap, recognitionLang,
                  mountVars, registry, events, clicks, lastTrigger >>

\* An awaited playMessage settled in a voice turn (outside pinLocation).
VoiceSpeakReturned(t) ==
  /\ turns[t].kind = "voice" /\ TurnReady(t)
  /\ turns[t].pc \in {"speakAnnounce", "speakDescription", "speakGuidance"}
  /\ IF calls[turns[t].await].pc = "threw"
     THEN VoiceFinish(t) /\ Resumed(t)
     ELSE IF turns[t].pc = "speakAnnounce"
     THEN /\ turns' = [turns EXCEPT ![t] =
                Step(turns[t], "vision", << VoiceVisionOp(turns[t]) >>)]
          /\ UNCHANGED isLoading
          /\ Resumed(t)
     ELSE IF turns[t].pc = "speakDescription" /\ ~Falsy(turns[t].analysis.navigation)
     THEN /\ StartSpeak(turns[t].analysis.navigation, t, Consume(t))
          /\ turns' = [turns EXCEPT ![t] =
                Speaking(turns[t], "speakGuidance", turns[t].analysis.navigation, Consume(t))]
          /\ UNCHANGED isLoading
     ELSE VoiceFinish(t) /\ Resumed(t)
  /\ UNCHANGED << reactVars, langVars, mountVars, registry, events, clicks,
                  lastTrigger >>

\* ------------------------------------------------------------ other buttons
\* The x on the navigation badge, shown while a target is set:
\* setNavigationTarget(null).
CancelNavigation ==
  /\ CanClick
  /\ ~Falsy(navigationTarget)
  /\ navigationTarget' = NullText
  /\ clicks' = clicks + 1
  /\ UNCHANGED << isLoading, lastDescription, lastSceneDescription, solanaBalance,
                  currentLanguage, error, goldenPath, currentLanguageRef, voiceSnap,
                  recognitionLang, speechVars, mountVars, turns, registry,
                  events, lastTrigger >>

\* The HUNTING SIGNS mark of the navigation badge: shown while no saved
\* place's description includes the target, both lower-cased.
HuntingSigns ==
  ~\E n \in goldenPath :
      includes(toLowerCase(n.description.arg), toLowerCase(navigationTarget.arg))

\* A click on a saved place: the target is set and announced, unawaited.
SavedPlaceClicked(node) ==
  /\ CanClick
  /\ node \in goldenPath
  /\ navigationTarget' = node.description
  /\ StartSpeak(Text("navigating_to", "", <<>>, <<node.description>>), 0, calls)
  /\ clicks' = clicks + 1
  /\ UNCHANGED << isLoading, lastDescription, lastSceneDescription, solanaBalance,
                  currentLanguage, error, goldenPath, currentLanguageRef, voiceSnap,
                  recognitionLang, mountVars, turns, registry, events,
                  lastTrigger >>

\* The repeat button, shown while lastDescription is non-empty:
\* playMessage(lastDescription), unawaited.
RepeatClicked ==
  /\ CanClick
  /\ ~Falsy(lastDescription)
  /\ StartSpeak(lastDescription, 0, calls)
  /\ clicks' = clicks + 1
  /\ UNCHANGED << isLoading, reactVars, langVars, mountVars, turns, registry,
                  events, lastTrigger >>

\* --------------------------------------------------------------------- Next
\* Steps of the program that no user input starts: network answers, media
\* events and the continuations of suspended handlers.
ScanProgress ==
  \/ \E t \in TurnIds, o \in VisionOutcomes, h \in BOOLEAN, n \in BOOLEAN :
       ScanVisionReturn(t, o, h, n)
  \/ \E t \in TurnIds : ScanHazardAlertDone(t)
  \/ \E t \in TurnIds : ScanSpeakReturned(t)

PinProgress ==
  \/ \E t \in TurnIds, a \in BOOLEAN : PinCreateReturn(t, a)
  \/ \E t \in TurnIds, d \in InsertAnswers : PinInsertReturn(t, d)
  \/ \E t \in TurnIds, c \in ReadCases : PinFetchReturn(t, c[1], c[2])
  \/ \E t \in TurnIds : PinSpeakReturned(t)

VoiceProgress ==
  \/ \E t \in TurnIds, a \in ReadAnswers :
       VoiceSearchReturn(t, searchRegistry(a, <<>>).nodes)
  \/ \E t \in TurnIds, n \in registry, f \in CellFormats :
       VoiceSearchReturn(t, searchRegistry("rows", <<Row(n, f)>>).nodes)
  \/ \E t \in TurnIds, o \in VisionOutcomes, h \in BOOLEAN, n \in BOOLEAN :
       VoiceVisionReturn(t, o, h, n)
  \/ \E t \in TurnIds : VoiceSpeakReturned(t)

SpeechProgress ==
  \/ \E c \in CallIds : RemoteSkipped(c)
  \/ \E c \in CallIds, o \in RemoteOutcomes : RemoteReturn(c, o)
  \/ \E c \in CallIds : PlayStarted(c)
  \/ \E c \in CallIds : PlayFailed(c)
  \/ \E c \in CallIds : PlayAborted(c)
  \/ AudioEnded
  \/ UtteranceEnded

Progress == ScanProgress \/ PinProgress \/ VoiceProgress \/ SpeechProgress

\* The other clicks.
Clicks ==
  \/ \E l \in {"French", "English"} : LanguageSelected(l)
  \/ CancelNavigation
  \/ \E n \in goldenPath : SavedPlaceClicked(n)
  \/ RepeatClicked

\* Nothing is in progress: no handler is suspended and no speech is pending
\* or playing.
Settled == CallIds = {} /\ \A t \in TurnIds : ~InProgress(t)

\* The user who presses the buttons and the microphone at any moment, the
\* one-fragment utterances.
Next ==
  \/ captureAndAnalyze
  \/ pinLocation
  \/ \E q \in ShortUtterances : handleUserQuestion(q)
  \/ Progress

Spec == Init /\ [][Next]_vars

\* The user who starts a turn only once the last one and its speech are
\* over, and uses the other controls at any moment.
SettledScan  == Settled /\ captureAndAnalyze
SettledPin   == Settled /\ pinLocation
SettledVoice == \E q \in ShortUtterances : Settled /\ handleUserQuestion(q)

NextSettled == SettledScan \/ SettledPin \/ SettledVoice \/ Clicks \/ Progress

SpecSettled == Init /\ [][NextSettled]_vars

\* The session in which one utterance is spoken, out of all the phrases,
\* possibly after a scan and a change of language.
BeforeUtterance == Settled /\ lastTrigger.kind # "voice"
SessionScan  == events = 0 /\ BeforeUtterance /\ captureAndAnalyze
OneUtterance == \E q \in Utterances : BeforeUtterance /\ handleUserQuestion(q)
SessionLanguage ==
  \E l \in {"French", "English"} : lastTrigger.kind # "voice" /\ LanguageSelected(l)

NextVoice == SessionScan \/ OneUtterance \/ SessionLanguage \/ Progress

SpecVoice == Init /\ [][NextVoice]_vars

\* The journey: the saved places arrive (or the request fails), the user
\* says one thing and then looks around or pins the place, each once the
\* turn before and its speech are over.  The target is cancelled at any
\* moment, a saved place is selected between turns, and the language is
\* selected between turns or during the scan.
JourneyLoaded    == \E c \in ReadCases : loadSpatialData(c[1], c[2])
JourneyUtterance ==
  \E q \in JourneyUtterances : events = 0 /\ Settled /\ handleUserQuestion(q)
JourneyScan      == events = 1 /\ Settled /\ captureAndAnalyze
JourneyPin       == events = 1 /\ Settled /\ pinLocation

JourneyCancel    == CancelNavigation
JourneyPlace     == \E n \in goldenPath : Settled /\ SavedPlaceClicked(n)
JourneyLanguage  ==
  \E l \in {"French", "English"} :
    (Settled \/ (events = 2 /\ lastTrigger.kind = "scan")) /\ LanguageSelected(l)

NextJourney ==
  \/ JourneyLoaded
  \/ JourneyUtterance
  \/ JourneyScan
  \/ JourneyPin
  \/ JourneyCancel
  \/ JourneyPlace
  \/ JourneyLanguage
  \/ Progress

SpecJourney == InitJourney /\ [][NextJourney]_vars

\* --------------------------------------------------------------- properties
TurnsInProgress == { t \in TurnIds : InProgress(t) }

\* C1: at most one turn (scan, voice utterance or pin) is in progress at any
\* time; a trigger that arrives while a turn is in progress starts nothing.
AtMostOneTurnInProgress == Cardinality(TurnsInProgress) <= 1

\* C2: once the orchestrator is back in Idle (busy flag false), whatever
\* happened in the turns before, a scan or voice trigger is accepted.
TriggerAtIdleAccepted ==
  (lastTrigger.kind \in {"scan", "voice"} /\ ~lastTrigger.busy) => lastTrigger.accepted

\* The other half of C2: when the network answers and the media events that
\* a suspended handler waits for do arrive, every accepted turn returns and
\* the busy flag is cleared.
SpecSettledFair == SpecSettled /\ WF_vars(Progress)
EveryTurnReturns ==
  /\ \A t \in TurnIds : InProgress(t) ~> ~InProgress(t)
  /\ isLoading ~> ~isLoading

\* The positions in a turn's log at which `text` was handed to playMessage.
SpokenAt(rec, text) ==
  { i \in 1..Len(rec.ops) : rec.ops[i].op = "speak" /\ rec.ops[i].text = text }

\* C3: in every turn that obtained an analysis with a non-null hazard, scan
\* or voice, the warning is spoken before the description or the navigation
\* guidance of that analysis.
HazardSpokenFirst ==
  \A t \in TurnIds :
    LET rec   == turns[t]
        later == SpokenAt(rec, rec.analysis.description)
                   \cup SpokenAt(rec, rec.analysis.navigation)
    IN (InProgress(t) /\ ~Falsy(rec.analysis.hazard) /\ later # {}) =>
         \E w \in SpokenAt(rec, WarningText(rec.analysis.hazard)) :
           \A i \in later : w < i

\* C4: there is never more than one active playback: the audio element is
\* not playing while window.speechSynthesis is speaking.
OneActivePlayback == ~(audio.st = "playing" /\ synth # <<>>)

\* The call k is still active: its request or its play() is pending, or its
\* output is in the audio element or in the synthesis queue.
InSynth(s, k) == \E i \in 1..Len(s) : s[i].call = k
ActiveCall(k) ==
  calls[k].pc \in {"remote", "nokey", "play"} \/ audio.src = k \/ InSynth(synth, k)

\* A completion or abort notification of the call c is delivered.
NotifiedBy(c) ==
  \/ PlayAborted(c)
  \/ audio.src = c /\ AudioEnded
  \/ synth # <<>> /\ Head(synth).call = c /\ UtteranceEnded

\* C5: the 'ended' event, the onend callback or the AbortError branch of a
\* call never turns isAudioPlaying to false while a newer call is active.
StaleNotificationIgnored ==
  [][ \A c \in CallIds : \A k \in CallIds :
        (k > c /\ ActiveCall(k) /\ NotifiedBy(c)) =>
          ~(isAudioPlaying /\ ~isAudioPlaying') ]_vars

\* The output of the call c begins in this step.
BeginsOutput(c) ==
  \/ audio'.src = c /\ audio.src # c
  \/ InSynth(synth', c) /\ ~InSynth(synth, c)

\* C6: the text of a call never begins to play once a newer call has been
\* made, in whatever order their remote requests resolve.
SupersededCallStaysSilent ==
  [][ \A c \in CallIds : BeginsOutput(c) => \A k \in CallIds : k <= c ]_vars

\* The vision step of the turn failed inside the vision client.
VisionFailed(rec) == rec.analysis = SafeDefaultAnalysis

\* The handler of the scan turn t returns in this step.
ScanReturns(t) == turns[t].kind = "scan" /\ turns'[t].pc = "idle"

\* C7: a scan turn whose vision step failed returns to Idle and leaves the
\* reward balance unchanged.
FailedVisionScanNoReward ==
  [][ \A t \in TurnIds :
        (ScanReturns(t) /\ VisionFailed(turns[t])) =>
          (isLoading' = FALSE /\ solanaBalance' = solanaBalance) ]_vars

\* The scan turn t returns in this step with no step of it having failed.
ScanSucceeds(t) ==
  /\ ScanReturns(t)
  /\ ~VisionFailed(turns[t])
  /\ ~(TurnReady(t) /\ calls[turns[t].await].pc = "threw")

\* C8: the reward balance grows by one credit in the step in which a scan
\* turn returns successfully, and in no other step.
RewardOncePerSuccessfulScan ==
  [][ solanaBalance' =
        solanaBalance + RewardStep * Cardinality({ t \in TurnIds : ScanSucceeds(t) }) ]_vars

\* A recognition result is accepted in this step.
VoiceAccepted ==
  events' = events + 1 /\ lastTrigger'.kind = "voice" /\ lastTrigger'.accepted

\* The fragments by what they hold, and the utterances built from them.
PinFragments    == {1}
NavFragments    == {2, 6}
SwitchFragments == {3}
Holds(ws, frags) == \E i \in 1..Len(ws) : ws[i] \in frags

PinNavUtterances ==
  { Join(ws) : ws \in { w \in WordLists :
      Holds(w, PinFragments) /\ Holds(w, NavFragments) /\ ~Holds(w, SwitchFragments) } }

SwitchUtterances ==
  { Join(ws) : ws \in { w \in WordLists : Holds(w, SwitchFragments) } }

SwitchAndMoreUtterances ==
  { Join(ws) : ws \in { w \in WordLists :
      Holds(w, SwitchFragments) /\ Holds(w, PinFragments \cup NavFragments) } }

PinSteps == {"save", "insert", "fetch", "speakPinned", "speakPinFailed"}

\* C9: an utterance with a pin keyword and a navigate keyword and no switch
\* phrase is handled as PinLocation only: its turn makes no registry search
\* (nor any capture or vision call) and leaves the navigation target as it was.
PinNavHandledAsPin ==
  /\ [](\A t \in TurnIds :
          (turns[t].kind = "voice" /\ turns[t].question \in PinNavUtterances) =>
            /\ turns[t].pc \in PinSteps
            /\ \A i \in 1..Len(turns[t].ops) :
                 turns[t].ops[i].op \in {"save", "insert", "fetch", "speak"})
  /\ [][ /\ \A q \in PinNavUtterances :
              (VoiceAccepted /\ handleUserQuestion(q)) =>
                /\ navigationTarget' = navigationTarget
                /\ \/ turns' = turns /\ isLoading' = FALSE
                   \/ \E t \in TurnIds :
                        turns' = [turns EXCEPT ![t] = turns'[t]] /\ turns'[t].pc = "save"
         /\ (\E t \in TurnIds :
               turns[t].kind = "voice" /\ turns[t].question \in PinNavUtterances) =>
              navigationTarget' = navigationTarget ]_vars

\* C9 witness: the turn of such an utterance has saved the pin.
PinNavTurnSaved ==
  \E t \in TurnIds :
    /\ turns[t].kind = "voice" /\ turns[t].question \in PinNavUtterances
    /\ turns[t].pc = "fetch"

\* C10: an utterance with a switch phrase and a language name, in whatever
\* case and whatever else it holds, is handled as LanguageSwitch: the
\* language changes, and no turn is suspended on a registry save, a registry
\* search or a vision call.
SwitchHandledFirst ==
  [][ \A q \in SwitchUtterances :
        (VoiceAccepted /\ handleUserQuestion(q)) =>
          /\ currentLanguage' = "French" /\ currentLanguageRef' = "French"
          /\ recognitionLang' = "fr-FR"
          /\ turns' = turns /\ registry' = registry
          /\ navigationTarget' = navigationTarget
          /\ isLoading' = FALSE ]_vars

\* C10 witness: an utterance with the switch phrase and a pin or navigate
\* keyword has been handled and the language is French.
SwitchAndMoreHandled ==
  /\ lastTrigger.kind = "voice" /\ lastTrigger.accepted
  /\ \E q \in SwitchAndMoreUtterances : lastDescription = ListeningText(q)
  /\ currentLanguage = "French" /\ ~isLoading /\ TurnsInProgress = {}

\* The fragment that asks for a translation.
TranslateFragments == {4}

TranslateNavUtterances ==
  { Join(ws) : ws \in { w \in WordLists :
      /\ Holds(w, TranslateFragments) /\ Holds(w, NavFragments)
      /\ ~Holds(w, PinFragments) /\ ~Holds(w, SwitchFragments) } }

\* C11: an utterance with "translate to <known language>" and a navigate
\* keyword (and no switch phrase or pin keyword) is handled as TranslateTo
\* only: its turn makes no registry search and announces no navigation.
TranslateNavHandledAsTranslate ==
  \A t \in TurnIds :
    (turns[t].kind = "voice" /\ turns[t].question \in TranslateNavUtterances) =>
      /\ turns[t].pc \notin {"search", "speakAnnounce"}
      /\ \A i \in 1..Len(turns[t].ops) : turns[t].ops[i].op # "search"

\* The known languages L for which the utterance matches "switch to " + L.
SwitchToNamed(q) ==
  { i \in LangIdx :
      includes(toLowerCase(q), kSwitchTo \o toLowerCase(languageKeywords[i].chars)) }

\* The accepted utterances among qs that match "switch to " + L leave the
\* language at L, and what is handed to playMessage is L's own confirmation.
SwitchToHonoured(qs) ==
  \A q \in qs :
    (VoiceAccepted /\ handleUserQuestion(q)) =>
      \A i \in SwitchToNamed(q) :
        /\ currentLanguage' = languageKeywords[i].name
        /\ currentLanguageRef' = languageKeywords[i].name
        /\ \A c \in DOMAIN calls' \ DOMAIN calls :
             calls'[c].text = Text("confirmation", languageKeywords[i].name, <<>>, <<>>)

\* C12: for every utterance matching "switch to " + L with L a known
\* language, after the turn the language is L and the confirmation spoken is
\* L's own localized confirmation.
SwitchToSetsNamedLanguage == [][ SwitchToHonoured(JourneyUtterances) ]_vars

\* The same for the utterances that name one language only.
OneLanguageSwitchHonoured == [][ SwitchToHonoured(JourneyUtterances \ {TwoLanguages}) ]_vars

\* The announcement the turn t makes in this step: the text of the
\* playMessage call it is suspended on afterwards.
Announced(t) == turns'[t].ops[Len(turns'[t].ops)]

\* The turn t resumes from searchRegistry with no rows, goes on (nothing is
\* thrown), the target is the utterance, it is shown as sign hunting, and
\* the sign-hunting template with the utterance is spoken.
HuntsSigns(t) ==
  /\ turns'[t].pc = "speakAnnounce"
  /\ navigationTarget' = Utter(turns[t].question)
  /\ HuntingSigns'
  /\ Announced(t).op = "speak" /\ Announced(t).text.kind = "sign_hunting"
  /\ Announced(t).text.of = << Utter(turns[t].question) >>

\* C13: a NavigateTo turn whose registry search returns zero nodes, the
\* failed registry call included, does not throw, sets the target to the
\* utterance, leaves it flagged as unmatched (sign hunting) and speaks the
\* sign-hunting template carrying the utterance.
NoMatchHuntsSigns ==
  [][ \A t \in TurnIds :
        (turns[t].pc = "search" /\ VoiceSearchReturn(t, <<>>)) => HuntsSigns(t) ]_vars

\* The same for the searches that were answered: no row of the registry
\* matches the utterance.
NoRowHuntsSigns ==
  [][ \A t \in TurnIds :
        ( /\ turns[t].pc = "search" /\ SearchMatches(turns[t].question) = {}
          /\ VoiceSearchReturn(t, <<>>) ) => HuntsSigns(t) ]_vars

\* The saved places are loaded: they are the audited rows of the registry.
SavedPlacesLoaded == isSnowflakeConnected = "true" /\ goldenPath = GoldenRows

\* C14: a NavigateTo turn whose registry search returns a node sets the
\* target to that node's description, the target is then shown as matched
\* (not as sign hunting) for an audited node and for an unaudited pin alike,
\* and the navigating template with the target is spoken.  Stated for the
\* sessions in which the saved places are loaded.
MatchShownAsMatched ==
  [][ \A t \in TurnIds : \A n \in registry :
        ( /\ turns[t].pc = "search" /\ SavedPlacesLoaded
          /\ VoiceSearchReturn(t, <<n>>) ) =>
          /\ navigationTarget' = n.description
          /\ ~HuntingSigns'
          /\ Announced(t).op = "speak" /\ Announced(t).text.kind = "navigating"
          /\ Announced(t).text.of = << n.description >> ]_vars

\* The same for the audited rows.
AuditedMatchShownAsMatched ==
  [][ \A t \in TurnIds : \A n \in GoldenRows :
        ( /\ turns[t].pc = "search" /\ SavedPlacesLoaded
          /\ VoiceSearchReturn(t, <<n>>) ) =>
          /\ navigationTarget' = n.description
          /\ ~HuntingSigns'
          /\ Announced(t).op = "speak" /\ Announced(t).text.kind = "navigating"
          /\ Announced(t).text.of = << n.description >> ]_vars

\* The handler of an utterance that is a navigation request is suspended
\* after its registry search has resolved the target.
PastResolution(t) ==
  /\ turns[t].kind = "voice" /\ Branch(turns[t].question) = "navigate"
  /\ turns[t].pc \in {"speakAnnounce", "vision", "speakDescription", "speakGuidance"}

\* C15: a navigation target that is set stays set through every later step
\* (turns, failed calls, media events) except the click on the cancel
\* button, which sets it to none; the cancel button can be clicked whenever
\* a target is set, a turn in progress or not.
TargetClearedOnlyByCancel ==
  /\ []((clicks < MaxClicks /\ NoMicrotask /\ ~Falsy(navigationTarget)) =>
          ENABLED CancelNavigation)
  /\ [][ /\ (~Falsy(navigationTarget) /\ Falsy(navigationTarget')) =>
              (clicks' = clicks + 1 /\ CancelNavigation)
         /\ (clicks' = clicks + 1 /\ CancelNavigation) =>
              navigationTarget' = NullText ]_vars

\* C15 witness: the target a turn resolved has been cancelled while that
\* turn was still in progress.
CancelledDuringTurn ==
  /\ navigationTarget = NullText /\ clicks = 1
  /\ \E t \in TurnIds : PastResolution(t)

\* The text is the empty string.
IsEmptyString(text) ==
  text.kind = "empty" \/ (text.kind \in {"utterance", "node"} /\ text.arg = <<>>)

\* C16: the navigation target is none or a non-empty string: no operation
\* stores the empty string as the target.
TargetNoneOrNonEmpty ==
  navigationTarget = NullText \/ ~IsEmptyString(navigationTarget)

\* C16 witness: an unmatched navigation request has stored its utterance,
\* and a saved place can be selected next.
UtteranceStoredAsTarget ==
  /\ navigationTarget = Utter(Fragments[2])
  /\ goldenPath # {} /\ clicks < MaxClicks

\* The turn t issues a vision-analysis request in this step, and the request.
VisionIssued(t) ==
  /\ Len(turns'[t].ops) > Len(turns[t].ops)
  /\ turns'[t].ops[Len(turns'[t].ops)].op = "vision"
VisionRequest(t) == turns'[t].ops[Len(turns'[t].ops)]

\* C17: every vision-analysis request carries the navigation target that is
\* current when the request is issued, the target its own turn has just
\* resolved included.
VisionCarriesCurrentTarget ==
  [][ \A t \in TurnIds :
        VisionIssued(t) => VisionRequest(t).text = navigationTarget' ]_vars

\* The request of a scan carries the target of the moment: the button runs
\* the captureAndAnalyze of the latest render.
ScanCarriesCurrentTarget ==
  [][ \A t \in TurnIds :
        (VisionIssued(t) /\ turns'[t].kind = "scan") =>
          VisionRequest(t).text = navigationTarget' ]_vars

\* The language of the turn t's request says: the "translate to" language
\* of its utterance, else the persistent language when the request is issued.
EffectiveLanguage(t) ==
  IF turns'[t].kind = "voice" /\ UtteranceFacts[turns'[t].question].translate # ""
  THEN UtteranceFacts[turns'[t].question].translate
  ELSE currentLanguageRef'

\* C18: the language passed to every vision-analysis request is the
\* effective language of its turn: the TranslateTo override, else the
\* persistent language as it is when the request is issued.
VisionCarriesEffectiveLanguage ==
  [][ \A t \in TurnIds :
        VisionIssued(t) => VisionRequest(t).lang = EffectiveLanguage(t) ]_vars

\* This step is a run of the language-switch handler: the language selector,
\* or an accepted utterance that takes the language branch.
LanguageSwitchStep ==
  \/ clicks' = clicks + 1 /\ \E l \in LanguageNames : LanguageSelected(l)
  \/ /\ VoiceAccepted
     /\ \E q \in JourneyUtterances : Branch(q) = "language" /\ handleUserQuestion(q)

\* C19: the persistent language (the state and the ref, which agree) is
\* written by the language-switch handler only: every other step leaves
\* it as it was, the accepting step of a TranslateTo utterance included, and
\* the scan after a TranslateTo turn carries the persistent language again.
LanguageWrittenOnlyBySwitch ==
  /\ [](currentLanguage = currentLanguageRef)
  /\ [][ /\ (currentLanguage' # currentLanguage \/ currentLanguageRef' # currentLanguageRef)
              => LanguageSwitchStep
         /\ \A t \in TurnIds :
              (VisionIssued(t) /\ turns'[t].kind = "scan") =>
                VisionRequest(t).lang = currentLanguage' ]_vars

\* C19 witness: after the turn of "translate to german exit", whose request
\* went out in German, a scan has sent its request in the persistent language.
ScanAfterTranslateTurn ==
  /\ navigationTarget = Utter(TranslateExit)
  /\ currentLanguage = "English"
  /\ \E t \in TurnIds :
       /\ turns[t].kind = "scan" /\ turns[t].pc = "vision"
       /\ turns[t].ops[Len(turns[t].ops)].lang = "English"

\* C20: without remote-synthesis credentials no request is made (no call
\* waits for an answer or for the audio element), and what is spoken is
\* spoken by the local synthesis with the locale tag of the active language.
NoCredentialsSpeaksLocally ==
  CredentialsMissing(apiKey, voiceId) =>
    /\ \A c \in CallIds : calls[c].pc \notin {"remote", "play", "aborted"}
    /\ audio = [src |-> 0, st |-> "idle"]
    /\ \A k \in 1..Len(synth) :
         /\ synth[k].call \in CallIds
         /\ \E i \in LangIdx :
              /\ languageKeywords[i].name = currentLanguageRef
              /\ synth[k].lang = languageKeywords[i].code

\* C20 witness: without credentials, French is active and the local
\* synthesis is speaking with the French locale tag.
SpeakingFrenchLocally ==
  /\ CredentialsMissing(apiKey, voiceId)
  /\ currentLanguageRef = "French"
  /\ synth # <<>> /\ Head(synth).lang = "fr-FR"

\* An analysis with its three fields defined and a description to speak.
AnalysisComplete(a) ==
  /\ ~Falsy(a.description)
  /\ a.hazard.kind # "undefined"
  /\ a.navigation.kind # "undefined"

\* C21: every analysis the vision client has returned to a turn has its
\* three fields description, hazard and navigation defined, the description
\* non-empty; the one returned on a transport or parse error has a hazard
\* and no navigation.
EveryAnalysisComplete ==
  \A t \in TurnIds :
    turns[t].analysis # NoAnalysis =>
      /\ AnalysisComplete(turns[t].analysis)
      /\ turns[t].analysis.description = SafeDefaultAnalysis.description =>
           /\ ~Falsy(turns[t].analysis.hazard)
           /\ turns[t].analysis.navigation = NullText

\* The analysis returned on a transport or parse error is complete.
FailedVisionAnalysisComplete ==
  \A t \in TurnIds :
    turns[t].analysis.description = SafeDefaultAnalysis.description =>
      /\ AnalysisComplete(turns[t].analysis)
      /\ ~Falsy(turns[t].analysis.hazard)
      /\ turns[t].analysis.navigation = NullText

\* C22: the remote voice client never throws and returns null when the
\* credentials are absent, when the answer is not OK and when the network
\* call fails (playMessage then goes on to the local synthesis), and it
\* returns an audio resource (playMessage then loads the audio element)
\* only after an OK response.
RemoteVoiceNullUnlessOk ==
  [][ \A c \in CallIds :
        /\ \A o \in RemoteOutcomes :
             RemoteReturn(c, o) =>
               /\ calls'[c].pc = IF o = "ok" THEN "play" ELSE "returned"
               /\ o = "ok"  => audio'.src = c /\ synth' = synth
               /\ o # "ok" => audio' = audio /\ InSynth(synth', c)
        /\ RemoteSkipped(c) =>
             /\ CredentialsMissing(apiKey, voiceId)
             /\ calls'[c].pc = "returned"
             /\ audio' = audio /\ InSynth(synth', c) ]_vars

\* C22 witness: with credentials, a request was answered without an audio
\* resource and the text is being spoken by the local synthesis.
RemoteRefusedSpokenLocally ==
  /\ ~CredentialsMissing(apiKey, voiceId)
  /\ synth # <<>>
  /\ Head(synth).lang = "en-US"
  /\ calls[Head(synth).call].pc = "returned"

\* The error shown carries the error text of the answer and the hint and
\* the detail the answer supplied.
CarriesServiceText(err, data) ==
  /\ err.kind = "Snowflake Save Failed"
  /\ err.tag \in {data.message, data.error, "Unknown Snowflake error"} \ {""}
  /\ data.hint # "" =>
       \E i \in 1..Len(err.of) : err.of[i].kind = "Hint" /\ err.of[i].tag = data.hint
  /\ data.detail # "" =>
       \E i \in 1..Len(err.of) : err.of[i].kind = "Detail" /\ err.of[i].tag = data.detail

\* C23: saveNewPath issues its create-if-absent request (logged with the
\* call, "save") before its insert request; it returns, and the row exists,
\* only when the insert reports success; otherwise it throws, with the
\* service's error text, hint and detail in the message when the service
\* answered, and no row is written.
SaveReturnsIdOnlyOnSuccess ==
  /\ [](\A t \in TurnIds : \A i \in 1..Len(turns[t].ops) :
          turns[t].ops[i].op = "insert" =>
            \E j \in 1..(i - 1) : turns[t].ops[j].op = "save")
  /\ [][ \A t \in TurnIds :
           /\ \A d \in InsertAnswers :
                PinInsertReturn(t, d) =>
                  IF d.code = "000000"
                  THEN /\ turns'[t].pc = "fetch"
                       /\ PinnedNode(turns[t].pin) \in registry'
                  ELSE /\ turns'[t].pc = "speakPinFailed"
                       /\ registry' = registry
                       /\ ~Falsy(error')
                       /\ d # NoAnswer => CarriesServiceText(error', d)
           /\ PinCreateReturn(t, FALSE) =>
                /\ turns'[t].pc = "speakPinFailed"
                /\ registry' = registry
                /\ \A i \in 1..Len(turns'[t].ops) : turns'[t].ops[i].op # "insert" ]_vars

\* C23 witness: a save was refused with a hint and a detail, which the
\* error shown carries, and the registry holds no row of this session.
SaveRefusedWithHint ==
  /\ \E t \in TurnIds : turns[t].pc = "speakPinFailed"
  /\ CarriesServiceText(error, ProxyRefused)
  /\ registry = {ElevatorNode, ExitPin}

\* The last operation the turn t has logged is the speaking of the system
\* message `key`.
JustSpoke(t, key) ==
  LET o == turns'[t].ops[Len(turns'[t].ops)]
  IN /\ Len(turns'[t].ops) = Len(turns[t].ops) + 1
     /\ o.op = "speak" /\ o.text.kind = key

\* What a step of a pin action does to the error shown and to the speech:
\* a failed save sets the error to the failure message and speaks
\* pin_failed; a successful one clears the error, then speaks pinned, and
\* ends without an apology.
PinOutcomeStep ==
  \A t \in TurnIds :
    /\ \A d \in InsertAnswers :
         PinInsertReturn(t, d) =>
           IF d = InsertSaved
           THEN error' = NullText /\ calls' = calls
           ELSE error' = saveNewPath(d).thrown /\ ~Falsy(error') /\ JustSpoke(t, "pin_failed")
    /\ PinCreateReturn(t, FALSE) => ~Falsy(error') /\ JustSpoke(t, "pin_failed")
    /\ \A c \in ReadCases : LET a == c[1]  f == c[2] IN
         PinFetchReturn(t, a, f) => error' = error /\ JustSpoke(t, "pinned")
    /\ (PinSpeakReturned(t) /\ turns[t].pc = "speakPinned") =>
         /\ error' = error
         /\ ~InProgress(t)'

\* C24: a save that fails during a pin action sets the error state to the
\* failure message and speaks the pin_failed apology; a save that succeeds
\* clears the error state and speaks the pinned message, and no apology is
\* spoken.
PinOutcomeShownAndSpoken == [][ PinOutcomeStep ]_vars

\* The same where the browser has a speech synthesis.
PinOutcomeWhereSpeechExists == [][ synthSupported => PinOutcomeStep ]_vars

\* This step is a pin action: the pin button, or an accepted utterance that
\* takes the pin branch.
PinTriggered ==
  \/ pinLocation
  \/ /\ VoiceAccepted
     /\ \E q \in ShortUtterances : Branch(q) = "pin" /\ handleUserQuestion(q)

\* The step starts no save, speaks nothing, sets no error and leaves the
\* system idle.
NothingDone ==
  /\ turns' = turns /\ registry' = registry
  /\ UNCHANGED speechVars
  /\ error' = error
  /\ isLoading' = FALSE /\ TurnsInProgress = {}

\* C25: a pin action taken while no scene description has been produced
\* yet does nothing: no save is started, nothing is spoken, no error is set
\* and the system is idle afterwards.
PinWithoutSceneIsNoOp ==
  [][ (Falsy(lastSceneDescription) /\ PinTriggered) => NothingDone ]_vars

\* The same for a pin action taken before anything was shown as the last
\* description.
PinWithoutAnyTextIsNoOp ==
  [][ (Falsy(lastSceneDescription) /\ Falsy(lastDescription) /\ PinTriggered)
        => NothingDone ]_vars

\* This step is the resolution of the target in the turn of an utterance
\* that is classified NavigateTo: a navigation keyword, no translate phrase.
NavigateToResolved ==
  \E t \in TurnIds :
    /\ turns[t].kind = "voice" /\ turns[t].pc = "search"
    /\ turns'[t].pc = "speakAnnounce"
    /\ UtteranceFacts[turns[t].question].translate = ""
    /\ navigationTarget' \in
         { n.description : n \in SearchMatches(turns[t].question) }
           \cup { Utter(turns[t].question) }

\* This step is the resolution of the target in a voice turn.
VoiceTargetResolved ==
  \E t \in TurnIds :
    /\ turns[t].kind = "voice" /\ turns[t].pc = "search"
    /\ turns'[t].pc = "speakAnnounce"
    /\ navigationTarget' \in
         { n.description : n \in SearchMatches(turns[t].question) }
           \cup { Utter(turns[t].question) }

\* This step is the click on the x of the navigation badge.
CancelClicked == clicks' = clicks + 1 /\ navigationTarget' = NullText /\ CancelNavigation

\* C26: the navigation target changes value only in a voice NavigateTo turn
\* (to a matched node's description or to the utterance) or by the cancel
\* button; every other step (scans, pins, free-form and translate turns,
\* language switches, other clicks) leaves it as it was.
TargetWrittenOnlyByNavigateOrCancel ==
  [][ navigationTarget' # navigationTarget =>
        (NavigateToResolved \/ CancelClicked) ]_vars

\* The target changes value only in the resolution of a voice turn, by a
\* click on a saved place or by the cancel button.
TargetWrittenByThreeHandlers ==
  [][ navigationTarget' # navigationTarget =>
        \/ VoiceTargetResolved
        \/ CancelClicked
        \/ \E n \in goldenPath : SavedPlaceClicked(n) ]_vars

\* C27: in a voice turn that speaks both the navigation guidance and the
\* description of its analysis, the guidance is handed to playMessage
\* before the description.
GuidanceSpokenBeforeDescription ==
  \A t \in TurnIds :
    LET rec == turns[t]
    IN (rec.kind = "voice" /\ ~Falsy(rec.analysis.navigation)) =>
         \A g \in SpokenAt(rec, rec.analysis.navigation) :
           \A d \in SpokenAt(rec, rec.analysis.description) : g < d

\* In a voice turn the description is handed to playMessage before the
\* guidance.
DescriptionSpokenBeforeGuidance ==
  \A t \in TurnIds :
    LET rec == turns[t]
    IN (rec.kind = "voice" /\ ~Falsy(rec.analysis.navigation)) =>
         \A g \in SpokenAt(rec, rec.analysis.navigation) :
           \E d \in SpokenAt(rec, rec.analysis.description) : d < g

\* The scan turn t, back from speaking its warning, issues the speak call
\* of its guidance in this step.
GuidanceFollowsWarning(t) ==
  /\ turns[t].kind = "scan"
  /\ turns[t].pc = "speakWarning" /\ turns'[t].pc = "speakGuidance"

\* C28: in a scan turn with a hazard and guidance, the speak call of the
\* guidance is issued only once the playback of the warning is over: the
\* warning's call is no longer pending, in the audio element or in the
\* synthesis queue.
GuidanceWaitsForWarning ==
  [][ \A t \in TurnIds :
        GuidanceFollowsWarning(t) => ~ActiveCall(turns[t].await) ]_vars

\* The playMessage call c hands an utterance to the local synthesis in this
\* step.
FallsBackLocally(c) ==
  /\ c \in CallIds
  /\ Len(synth') = Len(synth) + 1
  /\ synth'[Len(synth')].call = c

\* The language the request of call c is made in: the "translate to"
\* language of the utterance of the voice turn that made the call, else the
\* persistent language.
RequestLanguage(c) ==
  LET t == calls[c].owner
  IN IF /\ t \in TurnIds
        /\ turns[t].kind = "voice"
        /\ UtteranceFacts[turns[t].question].translate # ""
     THEN UtteranceFacts[turns[t].question].translate
     ELSE currentLanguageRef

\* C29: every utterance playMessage hands to the local synthesis, after a
\* null from the remote voice and after a play() that failed alike, carries
\* the locale tag of the language of its request: the "translate to"
\* language of the turn when it has one, else the persistent language.
FallbackCarriesRequestLocale ==
  [][ \A c \in CallIds :
        FallsBackLocally(c) =>
          synth'[Len(synth')].lang = LocaleOf(RequestLanguage(c)) ]_vars

\* After a null from the remote voice the utterance carries the locale tag
\* of the persistent language, whatever the turn's utterance asked for;
\* after a failed play() it carries none.
FallbackCarriesPersistentLocaleOrNone ==
  [][ \A c \in CallIds :
        FallsBackLocally(c) =>
          synth'[Len(synth')].lang =
            IF calls[c].pc = "play" THEN "default"
            ELSE LocaleOf(currentLanguageRef) ]_vars

\* The playMessage call c rejected: its failure reaches the caller's catch.
SpeakRejected(c) == calls[c].pc = "threw"

\* C30: playMessage never propagates a failure to its caller: when the
\* remote voice gives nothing and the local synthesis cannot be started
\* either, the call resolves having spoken nothing, so no turn is sent to
\* its catch block by a speech failure.
SpeakNeverRejects == \A c \in CallIds : ~SpeakRejected(c)

\* Where window.speechSynthesis exists no playMessage call rejects.
SpeakRejectsOnlyWithoutSynthesis ==
  synthSupported => \A c \in CallIds : ~SpeakRejected(c)

\* Something is being spoken or about to be: a playMessage call is pending,
\* the audio element holds a source, or the synthesis queue is not empty.
SpeechActive ==
  \/ \E c \in CallIds : calls[c].pc \in {"remote", "nokey", "play", "aborted"}
  \/ audio.st # "idle"
  \/ synth # <<>>

\* A playMessage call starts in this step.
SpeakCallStarts ==
  \E c \in DOMAIN calls' :
    /\ calls'[c].pc \in {"remote", "nokey", "threw"}
    /\ c \in DOMAIN calls => calls[c].pc \notin {"remote", "nokey", "threw"}

\* C31: isAudioPlaying is true right after the start of every playMessage
\* call, and it is never left true with nothing playing and nothing pending:
\* whatever way the last call ends (the audio ended, the utterance ended,
\* playback was aborted, both voices failed), the flag returns to false.
PlayingFlagFollowsSpeech ==
  /\ [](isAudioPlaying => SpeechActive)
  /\ [][SpeakCallStarts => isAudioPlaying']_vars

\* Where window.speechSynthesis exists the flag is true only while something
\* is playing or pending, and it is true after the start of every call.
PlayingFlagFollowsSpeechWithSynthesis ==
  /\ [](synthSupported => (isAudioPlaying => SpeechActive))
  /\ [][SpeakCallStarts => isAudioPlaying']_vars

\* With the network answers and the media events arriving, the flag ends up
\* false for good where window.speechSynthesis exists.
PlayingFlagSettles == synthSupported => <>[](~isAudioPlaying)

\* The read request of this step did not bring rows.
ReadFailed(answer) == answer # "rows"

\* C32: when the registry is unavailable during the initial load of the
\* saved places (credentials missing at the proxy, service unreachable),
\* the registry status indicator shows the error state and not the
\* connected state, and the failure leaves the busy flag and the turns
\* alone, so that later turns are taken.
LoadFailureShowsError ==
  [][ \A c \in ReadCases : LET a == c[1]  f == c[2] IN
        (ReadFailed(a) /\ loadSpatialData(a, f)) =>
          /\ isSnowflakeConnected' = "false"
          /\ isLoading' = isLoading /\ turns' = turns ]_vars

\* What the code does at a failed initial load: the indicator shows the
\* connected state over an empty list, and the busy flag and the turns are
\* left alone.
LoadFailureShowsConnected ==
  [][ \A c \in ReadCases : LET a == c[1]  f == c[2] IN
        (ReadFailed(a) /\ loadSpatialData(a, f)) =>
          /\ isSnowflakeConnected' = "true" /\ goldenPath' = {}
          /\ isLoading' = isLoading /\ turns' = turns ]_vars

\* Every saved place shown is a verified row.
OnlyGolden(nodes) == \A n \in nodes : n.isGoldenPath

\* C33: searchRegistry and fetchGoldenPath never throw: when the request
\* fails (no answer, an error answer, a row that does not parse) the caller
\* goes on as with an empty list: loadSpatialData takes its success path,
\* pinLocation speaks the pinned message, the voice turn announces its
\* search for signs; and fetchGoldenPath returns rows flagged isGoldenPath
\* only.
RegistryReadsNeverThrow ==
  [][ \A c \in ReadCases : LET a == c[1]  f == c[2] IN
        /\ loadSpatialData(a, f) =>
             /\ isSnowflakeConnected' = "true" /\ error' = NullText
             /\ OnlyGolden(goldenPath') /\ (ReadFailed(a) => goldenPath' = {})
        /\ \A t \in TurnIds :
             /\ PinFetchReturn(t, a, f) =>
                  /\ error' = error /\ JustSpoke(t, "pinned")
                  /\ OnlyGolden(goldenPath') /\ (ReadFailed(a) => goldenPath' = {})
             /\ (ReadFailed(a) /\ VoiceSearchReturn(t, searchRegistry(a, <<>>).nodes)) =>
                  JustSpoke(t, "sign_hunting") ]_vars

\* C33 witness: the initial load failed and left the application connected
\* over an empty list, while the registry holds a verified row.
LoadFailedQuietly ==
  /\ isSnowflakeConnected = "true" /\ goldenPath = {}
  /\ GoldenRows # {}

\* The rows a pin action writes to the registry in this step.
RowsPinned == registry' \ registry

\* No pin action makes a verified row, and the saved places hold verified
\* rows only, so a row just pinned is not among them.
PinnedRowsAwaitAudit ==
  /\ [](OnlyGolden(goldenPath))
  /\ [][ \A n \in RowsPinned : ~n.isGoldenPath /\ n \notin goldenPath' ]_vars

\* C34: every row a pin action writes to the registry has isGoldenPath
\* false and carries the most recent scene description; the saved places
\* fetched afterwards hold verified rows only, so never the row just pinned.
PinnedRowIsUnauditedScene ==
  /\ [](OnlyGolden(goldenPath))
  /\ [][ \A n \in RowsPinned :
           /\ ~n.isGoldenPath /\ n \notin goldenPath'
           /\ ~Falsy(lastSceneDescription)
           /\ n.description = lastSceneDescription ]_vars

\* The utterance q, classified as PinLocation, is delivered in this step
\* while the busy flag is false and a scene description exists.
PinSaidOverScene(q) ==
  /\ Branch(q) = "pin"
  /\ ~isLoading /\ ~Falsy(lastSceneDescription)
  /\ events' = events + 1 /\ handleUserQuestion(q)

\* The save operations in a turn's log.
SavesOf(rec) == { i \in 1..Len(rec.ops) : rec.ops[i].op = "save" }

\* A handler is suspended in saveNewPath with `description` as the
\* description of the node, and has logged that one save.
SavingDescription(description) ==
  \E t \in TurnIds :
    /\ turns'[t].pc = "save" /\ turns'[t].pin = description
    /\ \A i \in SavesOf(turns'[t]) : turns'[t].ops[i].text = description

\* C35: a PinLocation utterance that arrives while the application is idle
\* and a scene description exists starts exactly one registry save, whose
\* description is that scene description and not the "Listening: ..." text;
\* no turn ever logs a second save.
VoicePinSavesScene ==
  /\ [](\A t \in TurnIds : Cardinality(SavesOf(turns[t])) <= 1)
  /\ [][ \A q \in Utterances :
           PinSaidOverScene(q) => SavingDescription(lastSceneDescription) ]_vars

\* The same where recognition was armed by a render that already had the
\* scene description (the language was changed after the analysis).
VoicePinSavesSceneOfItsRender ==
  /\ [](\A t \in TurnIds : Cardinality(SavesOf(turns[t])) <= 1)
  /\ [][ \A q \in Utterances :
           (PinSaidOverScene(q) /\ voiceSnap.lastSceneDescription = lastSceneDescription
              /\ ~voiceSnap.isLoading) =>
             SavingDescription(lastSceneDescription) ]_vars

\* A PinLocation utterance was handled with the description of an earlier
\* analysis.
VoicePinSavingScene ==
  \E t \in TurnIds :
    /\ turns[t].kind = "voice" /\ turns[t].pc = "save"
    /\ turns[t].pin = lastSceneDescription /\ ~Falsy(lastSceneDescription)

\* The operations `name` in a turn's log, and the times `text` was handed
\* to playMessage (each call makes at most one remote voice request).
IssuedOf(rec, name) == { i \in 1..Len(rec.ops) : rec.ops[i].op = name }

\* The times a failure was reported in speech: the pin_failed apology.
ApologiesOf(rec) ==
  { i \in IssuedOf(rec, "speak") : rec.ops[i].text.kind = "pin_failed" }

\* C36: nothing is retried: a turn issues the registry search, the save (its
\* create and its insert request), the vision analysis and the speaking of
\* any one text at most once each, and reports a failure at most once.
NothingRetried ==
  \A t \in TurnIds :
    LET rec == turns[t]
    IN /\ \A name \in {"search", "save", "insert", "vision"} :
            Cardinality(IssuedOf(rec, name)) <= 1
       /\ \A i, j \in IssuedOf(rec, "speak") : rec.ops[i].text = rec.ops[j].text => i = j
       /\ Cardinality(ApologiesOf(rec)) <= 1

\* C36 witness: a pin action whose save failed is speaking its apology,
\* having sent the save once.
SaveFailedOnce ==
  \E t \in TurnIds :
    /\ turns[t].pc = "speakPinFailed"
    /\ Cardinality(IssuedOf(turns[t], "save")) = 1
    /\ Cardinality(ApologiesOf(turns[t])) = 1
    /\ ~Falsy(error)

\* The turn in slot t is a voice turn that took the isNavIntent branch.
NavigateTurn(t) ==
  turns[t].kind = "voice" /\ IssuedOf(turns[t], "search") # {}

\* C37: in a voice NavigateTo turn the registry search comes before the
\* vision call and the vision call before any speech: the vision request is
\* issued after the search, and nothing is handed to playMessage before the
\* vision call.
SearchThenVisionThenSpeech ==
  \A t \in TurnIds :
    NavigateTurn(t) =>
      /\ \A s \in IssuedOf(turns[t], "search") : \A v \in IssuedOf(turns[t], "vision") : s < v
      /\ \A p \in IssuedOf(turns[t], "speak") : \E v \in IssuedOf(turns[t], "vision") : v < p

\* What the code does: the search first, then the announcement of the
\* target, then the vision call, then the description and the guidance.
SearchThenAnnounceThenVision ==
  \A t \in TurnIds :
    NavigateTurn(t) =>
      /\ \A s \in IssuedOf(turns[t], "search") : \A v \in IssuedOf(turns[t], "vision") : s < v
      /\ \A p \in IssuedOf(turns[t], "speak") :
           IF turns[t].ops[p].text.kind \in {"navigating", "sign_hunting"}
           THEN /\ \A s \in IssuedOf(turns[t], "search") : s < p
                /\ \A v \in IssuedOf(turns[t], "vision") : p < v
           ELSE \E v \in IssuedOf(turns[t], "vision") : v < p

\* C38: the reward balance never decreases, and it changes only in the step
\* in which a scan turn returns: the steps of voice turns, pin actions,
\* language switches, the cancel click and rejected triggers leave it as it
\* was.
BalanceMovesOnlyAtScanEnd ==
  [][ /\ solanaBalance' >= solanaBalance
      /\ solanaBalance' # solanaBalance => \E t \in TurnIds : ScanReturns(t) ]_vars

\* C38 witness: the scan after a voice turn has been rewarded, once, and
\* the other click was made.
RewardedOnceAfterVoiceTurn ==
  /\ solanaBalance = InitialBalance + RewardStep
  /\ lastTrigger.kind = "scan" /\ events = 2 /\ clicks = MaxClicks
  /\ Settled

\* The table getSystemMessage reads for a language: its own, else English.
CatalogLanguageOf(lang) == IF lang \in CatalogLanguages THEN lang ELSE "English"

SystemKeys == {"navigating", "sign_hunting", "pinned", "pin_failed"}

\* The turn t hands a system message to playMessage in this step.
SpeaksSystemMessage(t) ==
  /\ Len(turns'[t].ops) = Len(turns[t].ops) + 1
  /\ Announced(t).op = "speak" /\ Announced(t).text.kind \in SystemKeys

\* C39: a system message (navigating, sign_hunting, pinned, pin_failed)
\* spoken in a turn is the catalog string of the language that is active
\* when the turn runs, a turn that follows a language switch included, and
\* the English string when the catalog has no table for that language.
SystemMessageInActiveLanguage ==
  [][ \A t \in TurnIds :
        SpeaksSystemMessage(t) =>
          Announced(t).text.tag = CatalogLanguageOf(currentLanguage) ]_vars

\* The system messages of the pin button's turns are in the active
\* language, and those of a voice turn are in the language of the render
\* that armed recognition.
SystemMessageInLanguageOfRender ==
  [][ \A t \in TurnIds :
        SpeaksSystemMessage(t) =>
          Announced(t).text.tag =
            CatalogLanguageOf(IF turns[t].kind = "pin" THEN currentLanguage
                              ELSE voiceSnap.currentLanguage) ]_vars

\* C40: the question of a vision-analysis request is absent in every scan
\* turn and is the whole utterance in every voice turn that reaches the
\* vision call: a free-form question, a translate request, a navigate
\* request with or without a registry match.
VisionCarriesQuestion ==
  [][ \A t \in TurnIds :
        VisionIssued(t) =>
          VisionRequest(t).question =
            IF turns'[t].kind = "scan" THEN UndefinedText
            ELSE Utter(turns'[t].question) ]_vars

\* C40 witness: the turn of "exit", whose search found the pinned exit sign,
\* waits for the analysis it asked with the utterance.
MatchedNavigateAsksWithUtterance ==
  \E t \in TurnIds :
    /\ turns[t].kind = "voice" /\ turns[t].pc = "vision"
    /\ turns[t].question = Fragments[2]
    /\ navigationTarget = ExitPin.description
    /\ turns[t].ops[Len(turns[t].ops)].op = "vision"
    /\ turns[t].ops[Len(turns[t].ops)].question = Utter(Fragments[2])

====
